---- MODULE Spec2Model ----
(***************************************************************************)
(* PDFSeek backend: the retrieval-augmented conversation core.             *)
(*                                                                         *)
(*   text_postprocessing.py  postprocess_text and its three passes         *)
(*   model_service.py        ModelService (configuration, model upload)    *)
(*   vector_store.py         VectorStore (embedding provider, indexes)     *)
(*   session_service.py      SessionService (one JSON file per session)    *)
(*   chat_service.py         ChatService (the conversation graph)          *)
(*   api/routes/chat.py      chat_stream                                   *)
(*   api/routes/pdf.py       upload_pdfs                                   *)
(*                                                                         *)
(* Text is a sequence of characters over the alphabet Chars.  Files are    *)
(* functions from names to optional contents.                              *)
(***************************************************************************)
EXTENDS Integers, Sequences, FiniteSets, TLC

VARIABLES
    \* the clock (hours), the files of SessionService.sessions_dir, the
    \* number of session ids issued and the outcome of the last session call
    now, sessions, issued, sess_ret,
    \* settings.OPENAI_API_KEY is set; ModelService.current_config and the
    \* outcome of the last update_config
    api_key_set, current_config, cfg_ret,
    \* the VectorStore singleton, the .faiss files of its store_dir and the
    \* outcome of its last operation
    vector_store, faiss_files, vs_ret,
    \* the model directory (settings.MODEL_DIR) and the last upload's outcome
    model_dir_exists, model_files, upload_ret,
    \* post-processing: a text, its post-processed form, and that one's
    pp_pc, pp_x, pp_y, pp_z,
    \* ChatService.session_histories, the ids uuid4 has handed to process_pdfs,
    \* the HTTP request whose session dependency has run, and the outcomes of
    \* the last HTTP request and of the last process_chat_request
    session_histories, next_doc, pending, http_ret, chat_ret,
    \* ChatService._model_cache, the number of models loaded so far and the
    \* outcome of the last _get_llm call
    model_cache, loads, llm_ret,
    \* the session-service calls that run concurrently, each at the file
    \* operation it is about to do, and the session files that are open for
    \* writing: truncated and not yet written
    calls, torn

raceVars == <<calls, torn>>
sessVars == <<now, sessions, issued, sess_ret, raceVars>>
cfgVars == <<api_key_set, current_config, cfg_ret>>
vsVars == <<vector_store, faiss_files, vs_ret>>
mdlVars == <<model_dir_exists, model_files, upload_ret>>
ppVars == <<pp_pc, pp_x, pp_y, pp_z>>
llmVars == <<model_cache, loads, llm_ret>>
chatVars == <<session_histories, next_doc, pending, http_ret, chat_ret, llmVars>>

vars == <<sessVars, cfgVars, vsVars, mdlVars, ppVars, chatVars>>

\* An optional value is a sequence of at most one element: None, or Some(x).
\* A file that does not exist is None; a file that does holds Some(content).
None == <<>>
Some(x) == <<x>>
NoFile == None

(***************************************************************************)
(* Bounds of the model.                                                    *)
(***************************************************************************)
MaxLen == 5

(***************************************************************************)
(* Characters.  NL is the newline character, BS the backslash; the other   *)
(* characters of Chars stand for themselves.                               *)
(***************************************************************************)
NL == "LF"
BS == "BSL"
Chars == {"e", "n", "d", " ", ".", NL, BS}

\* Python's str.isspace() on the alphabet: blank and newline.
IsSpace(c) == c \in {" ", NL}

Strings(n) == UNION {[1..k -> Chars] : k \in 0..n}

Drop(s, k) == SubSeq(s, k + 1, Len(s))

RECURSIVE Concat(_)
\* ''.join(parts)
Concat(parts) ==
    IF parts = <<>> THEN <<>> ELSE Head(parts) \o Concat(Tail(parts))

RECURSIVE Join(_, _)
\* sep.join(parts)
Join(parts, sep) ==
    IF parts = <<>> THEN <<>>
    ELSE IF Len(parts) = 1 THEN Head(parts)
    ELSE Head(parts) \o sep \o Join(Tail(parts), sep)

RECURSIVE Replace2(_, _, _, _)
\* text.replace(a + b, r) for a two-character pattern: left to right,
\* non-overlapping, a single pass.
Replace2(s, a, b, r) ==
    IF Len(s) < 2 THEN s
    ELSE IF s[1] = a /\ s[2] = b THEN r \o Replace2(Drop(s, 2), a, b, r)
    ELSE <<s[1]>> \o Replace2(Drop(s, 1), a, b, r)

RECURSIVE RStripSet(_, _)
\* text.rstrip(chars)
RStripSet(s, cs) ==
    IF s # <<>> /\ s[Len(s)] \in cs THEN RStripSet(SubSeq(s, 1, Len(s) - 1), cs)
    ELSE s

RECURSIVE LStripSet(_, _)
LStripSet(s, cs) ==
    IF s # <<>> /\ s[1] \in cs THEN LStripSet(Drop(s, 1), cs) ELSE s

\* text.strip() and text.rstrip(): whitespace on both ends, or at the end.
Strip(s) == LStripSet(RStripSet(s, {" ", NL}), {" ", NL})
RStrip(s) == RStripSet(s, {" ", NL})

RECURSIVE Split1(_, _, _)
\* text.split(c) for a one-character separator; cur is the part being read.
Split1(s, c, cur) ==
    IF s = <<>> THEN <<cur>>
    ELSE IF s[1] = c THEN <<cur>> \o Split1(Drop(s, 1), c, <<>>)
    ELSE Split1(Drop(s, 1), c, Append(cur, s[1]))

RECURSIVE Split2(_, _, _, _)
\* text.split(a + b) for a two-character separator.
Split2(s, a, b, cur) ==
    IF s = <<>> THEN <<cur>>
    ELSE IF Len(s) >= 2 /\ s[1] = a /\ s[2] = b
         THEN <<cur>> \o Split2(Drop(s, 2), a, b, <<>>)
    ELSE Split2(Drop(s, 1), a, b, Append(cur, s[1]))

RECURSIVE Words(_, _)
\* text.split(): the maximal runs of non-whitespace characters.
Words(s, cur) ==
    IF s = <<>> THEN (IF cur = <<>> THEN <<>> ELSE <<cur>>)
    ELSE IF IsSpace(s[1])
         THEN (IF cur = <<>> THEN <<>> ELSE <<cur>>) \o Words(Drop(s, 1), <<>>)
    ELSE Words(Drop(s, 1), Append(cur, s[1]))

(***************************************************************************)
(* text_postprocessing.py                                                  *)
(***************************************************************************)

\* convert_newlines: escaped newlines become newlines, doubled newlines are
\* replaced once, trailing newlines are stripped.
convert_newlines(text) ==
    LET t1 == Replace2(text, BS, "n", <<NL>>)
        t2 == Replace2(t1, NL, NL, <<NL>>)
    IN  RStripSet(t2, {NL})

RECURSIVE RejoinParts(_, _)
\* The inner loop of remove_repeating_sentences over the parts of one
\* paragraph: every part but the last gets '. ' appended.
RejoinParts(parts, current) ==
    IF parts = <<>> THEN current
    ELSE IF Len(parts) > 1
         THEN RejoinParts(Tail(parts), current \o Head(parts) \o <<".", " ">>)
    ELSE current \o Head(parts)

RECURSIVE CollectSentences(_)
\* The outer loop: one entry per paragraph whose text is not blank, stripped.
CollectSentences(paragraphs) ==
    IF paragraphs = <<>> THEN <<>>
    ELSE LET current == RejoinParts(Split2(Head(paragraphs), ".", " ", <<>>), <<>>)
         IN  (IF Strip(current) # <<>> THEN <<Strip(current)>> ELSE <<>>)
             \o CollectSentences(Tail(paragraphs))

\* ' '.join(sentence.split())
Normalized(sentence) == Join(Words(sentence, <<>>), <<" ">>)

RECURSIVE UniqueSentences(_, _)
\* The dedup loop: keep a sentence when its normalized form was not seen.
UniqueSentences(sentences, seen) ==
    IF sentences = <<>> THEN <<>>
    ELSE LET n == Normalized(Head(sentences))
         IN  IF n \notin seen
             THEN <<Head(sentences)>> \o UniqueSentences(Tail(sentences), seen \cup {n})
             ELSE UniqueSentences(Tail(sentences), seen)

remove_repeating_sentences(text) ==
    LET paragraphs == Split1(text, NL, <<>>)
        sentences  == CollectSentences(paragraphs)
    IN  Join(UniqueSentences(sentences, {}), <<NL, NL>>)

\* '$' under re.MULTILINE after the first e characters of s: the end of the
\* text, or just before a newline.
AtEol(s, e) == e = Len(s) \/ s[e + 1] = NL

RECURSIVE SpaceRunEnd(_, _)
\* The last index of the whitespace run that starts after index e.
SpaceRunEnd(s, e) ==
    IF e < Len(s) /\ IsSpace(s[e + 1]) THEN SpaceRunEnd(s, e + 1) ELSE e

\* The end of the match of  end\s*$  that starts at index i, 0 when there is
\* none: \s* is greedy, so the match ends at the last index of the run after
\* which '$' holds.
EndMatch(s, i) ==
    IF i + 2 <= Len(s) /\ s[i] = "e" /\ s[i + 1] = "n" /\ s[i + 2] = "d"
    THEN LET k    == SpaceRunEnd(s, i + 2)
             ends == {e \in (i + 2)..k : AtEol(s, e)}
         IN  IF ends = {} THEN 0 ELSE CHOOSE e \in ends : \A f \in ends : f <= e
    ELSE 0

RECURSIVE SubEnd(_, _)
\* re.sub(r'end\s*$', '', text, flags=re.MULTILINE), scanning from index i.
SubEnd(s, i) ==
    IF i > Len(s) THEN <<>>
    ELSE LET e == EndMatch(s, i)
         IN  IF e > 0 THEN SubEnd(s, e + 1) ELSE <<s[i]>> \o SubEnd(s, i + 1)

\* The shortest text the pattern  [.\s]{50,}\s*$  can match.
LongRunMin == 50

RECURSIVE DotRunEnd(_, _)
\* The last index of the run of dots and whitespace that starts after e.
DotRunEnd(s, e) ==
    IF e < Len(s) /\ (s[e + 1] = "." \/ IsSpace(s[e + 1]))
    THEN DotRunEnd(s, e + 1) ELSE e

\* The end of the match of  [.\s]{50,}\s*$  that starts at index i, or 0.
LongRunMatch(s, i) ==
    LET k    == DotRunEnd(s, i - 1)
        ends == {e \in (i + LongRunMin - 1)..k : AtEol(s, e)}
    IN  IF ends = {} THEN 0 ELSE CHOOSE e \in ends : \A f \in ends : f <= e

RECURSIVE SubLongRun(_, _)
SubLongRun(s, i) ==
    IF i > Len(s) THEN <<>>
    ELSE LET e == LongRunMatch(s, i)
         IN  IF e > 0 THEN SubLongRun(s, e + 1) ELSE <<s[i]>> \o SubLongRun(s, i + 1)

\* filter_model_metadata.  Of its eleven patterns, applied in order, the
\* first and the last can match a text over Chars; each of the other nine
\* needs a character Chars does not hold ('#', '{', '}' or the letters of
\* 'section' and 'code') and leaves every text over Chars as it is.
filter_model_metadata(text) ==
    RStrip(SubLongRun(SubEnd(text, 1), 1))

postprocess_text(text) ==
    filter_model_metadata(remove_repeating_sentences(convert_newlines(text)))

(***************************************************************************)
(* session_service.py.  sessions[id] is the file sessions_dir/id.json, its *)
(* content the session record.  Time is counted in hours.  A session id is *)
(* a fresh uuid4: the ids are issued in the order 1, 2, ... and none is    *)
(* issued twice.                                                           *)
(***************************************************************************)
MaxSessions == 2
MaxCreated == 1
MaxTime == 36
MaxMessages == 1

SessionIds == 1..MaxSessions

\* SessionService.session_timeout = timedelta(hours=24)
session_timeout == 24

\* The step the clock takes: half a day.
TickSteps == {12}
LongStep == 25

\* Chat messages, document ids and session updates callers pass.
DocInputs == {1, 2}
Messages == {"m1"}
ModelConfigs == {"custom"}
SessionUpdates == {[has |-> {"model_config"}, model_config |-> c] : c \in ModelConfigs}

NoSessRet == [op |-> "", sid |-> 0, found |-> FALSE, expired |-> FALSE]

\* SessionService.create_session: the files afterwards.
create_session(files, t, session_id) ==
    [files EXCEPT ![session_id] =
        Some([created_at |-> t, last_accessed |-> t, document_ids |-> <<>>,
              chat_history |-> <<>>, model_config |-> "{}"])]

\* A plausible slip: True is returned whether or not there was a file.
delete_session_AlwaysTrue(files, session_id) ==
    [files |-> [files EXCEPT ![session_id] = NoFile], ret |-> TRUE]

\* SessionService.delete_session: the files afterwards and the value returned.
delete_session(files, session_id) ==
    IF files[session_id] # NoFile
    THEN [files |-> [files EXCEPT ![session_id] = NoFile], ret |-> TRUE]
    ELSE [files |-> files, ret |-> FALSE]

\* A plausible slip: an expired session is reported missing but not deleted.
get_session_KeepExpired(files, t, session_id) ==
    IF files[session_id] = NoFile
    THEN [files |-> files, data |-> None, expired |-> FALSE]
    ELSE LET session_data == files[session_id][1]
         IN  IF t - session_data.last_accessed > session_timeout
             THEN [files |-> files, data |-> None, expired |-> TRUE]
             ELSE LET d == [session_data EXCEPT !.last_accessed = t]
                  IN  [files |-> [files EXCEPT ![session_id] = Some(d)],
                       data |-> Some(d), expired |-> FALSE]

\* A plausible slip: the age of a session is measured from its creation.
get_session_FromCreation(files, t, session_id) ==
    IF files[session_id] = NoFile
    THEN [files |-> files, data |-> None, expired |-> FALSE]
    ELSE LET session_data == files[session_id][1]
         IN  IF t - session_data.created_at > session_timeout
             THEN [files |-> delete_session(files, session_id).files,
                   data |-> None, expired |-> TRUE]
             ELSE LET d == [session_data EXCEPT !.last_accessed = t]
                  IN  [files |-> [files EXCEPT ![session_id] = Some(d)],
                       data |-> Some(d), expired |-> FALSE]

\* SessionService.get_session at time t: the files afterwards, the record
\* returned (None for not found) and whether the expiry branch was taken.
get_session(files, t, session_id) ==
    IF files[session_id] = NoFile
    THEN [files |-> files, data |-> None, expired |-> FALSE]
    ELSE LET session_data == files[session_id][1]
         IN  IF t - session_data.last_accessed > session_timeout
             THEN [files |-> delete_session(files, session_id).files,
                   data |-> None, expired |-> TRUE]
             ELSE LET d == [session_data EXCEPT !.last_accessed = t]
                  IN  [files |-> [files EXCEPT ![session_id] = Some(d)],
                       data |-> Some(d), expired |-> FALSE]

\* session_data.update(updates) for the keys a caller may give.
DictUpdate(session_data, updates) ==
    [k \in DOMAIN session_data |->
        IF k \in updates.has THEN updates[k] ELSE session_data[k]]

\* A plausible slip: an update of a session that is not found starts a new
\* session file under that id.
update_session_Upsert(files, t, session_id, updates) ==
    LET g    == get_session(files, t, session_id)
        base == IF g.data = None THEN create_session(g.files, t, session_id)[session_id][1]
                ELSE g.data[1]
        d    == [DictUpdate(base, updates) EXCEPT !.last_accessed = t]
    IN  [files |-> [g.files EXCEPT ![session_id] = Some(d)], data |-> Some(d)]

\* SessionService.update_session: data is None when it raises "Session not
\* found or expired".
update_session(files, t, session_id, updates) ==
    LET g == get_session(files, t, session_id)
    IN  IF g.data = None
        THEN [files |-> g.files, data |-> None]
        ELSE LET d == [DictUpdate(g.data[1], updates) EXCEPT !.last_accessed = t]
             IN  [files |-> [g.files EXCEPT ![session_id] = Some(d)], data |-> Some(d)]

\* The whole record as an update: update_session(session_id, session_data).
AsUpdate(session_data) ==
    [has |-> DOMAIN session_data] @@ session_data

InSeq(x, seq) == \E i \in 1..Len(seq) : seq[i] = x

\* A plausible slip: the id is appended whether or not the list has it.
add_document_to_session_Always(files, t, session_id, document_id) ==
    LET g == get_session(files, t, session_id)
    IN  IF g.data = None
        THEN [files |-> g.files, data |-> None]
        ELSE LET d == [g.data[1] EXCEPT !.document_ids = Append(@, document_id)]
                 u == update_session(g.files, t, session_id, AsUpdate(d))
             IN  IF u.data = None
                 THEN [files |-> u.files, data |-> None]
                 ELSE [files |-> u.files, data |-> Some(d.document_ids)]

\* SessionService.add_document_to_session: data is the list returned, None
\* when the call raises.
add_document_to_session(files, t, session_id, document_id) ==
    LET g == get_session(files, t, session_id)
    IN  IF g.data = None
        THEN [files |-> g.files, data |-> None]
        ELSE IF ~InSeq(document_id, g.data[1].document_ids)
        THEN LET d == [g.data[1] EXCEPT !.document_ids = Append(@, document_id)]
                 u == update_session(g.files, t, session_id, AsUpdate(d))
             IN  IF u.data = None
                 THEN [files |-> u.files, data |-> None]
                 ELSE [files |-> u.files, data |-> Some(d.document_ids)]
        ELSE [files |-> g.files, data |-> Some(g.data[1].document_ids)]

\* SessionService.add_chat_message
add_chat_message(files, t, session_id, message) ==
    LET g == get_session(files, t, session_id)
    IN  IF g.data = None
        THEN [files |-> g.files, data |-> None]
        ELSE LET d == [g.data[1] EXCEPT !.chat_history = Append(@, message)]
                 u == update_session(g.files, t, session_id, AsUpdate(d))
             IN  IF u.data = None
                 THEN [files |-> u.files, data |-> None]
                 ELSE [files |-> u.files, data |-> Some(d.chat_history)]

\* Two callers may be inside the session service at once.
Callers == {1, 2}
IdleCall == [op |-> "", pc |-> "idle", sid |-> 0, was |-> "", arg |-> 0,
             message |-> "", data |-> None, ret |-> None]

InitSessions ==
    /\ now = 0
    /\ sessions = [id \in SessionIds |-> NoFile]
    /\ issued = 0
    /\ sess_ret = NoSessRet
    /\ calls = [c \in Callers |-> IdleCall]
    /\ torn = {}

TickBy(steps) ==
    /\ \E d \in steps :
          /\ now + d <= MaxTime
          /\ now' = now + d
    /\ UNCHANGED <<sessions, issued, sess_ret, cfgVars, vsVars, mdlVars, ppVars, chatVars,
                   raceVars>>

Tick == TickBy(TickSteps)

CreateSession ==
    /\ issued < MaxCreated
    /\ issued < MaxSessions
    /\ issued' = issued + 1
    /\ sessions' = create_session(sessions, now, issued + 1)
    /\ sess_ret' = [op |-> "create_session", sid |-> issued + 1, found |-> TRUE,
                    expired |-> FALSE]
    /\ UNCHANGED <<now, cfgVars, vsVars, mdlVars, ppVars, chatVars, raceVars>>

GetSession(session_id) ==
    LET g == get_session(sessions, now, session_id)
    IN  /\ sessions' = g.files
        /\ sess_ret' = [op |-> "get_session", sid |-> session_id,
                        found |-> g.data # None, expired |-> g.expired]
        /\ UNCHANGED <<now, issued, cfgVars, vsVars, mdlVars, ppVars, chatVars,
                   raceVars>>

UpdateSession(session_id, updates) ==
    LET u == update_session(sessions, now, session_id, updates)
    IN  /\ sessions' = u.files
        /\ sess_ret' = [op |-> "update_session", sid |-> session_id,
                        found |-> u.data # None, expired |-> FALSE]
        /\ UNCHANGED <<now, issued, cfgVars, vsVars, mdlVars, ppVars, chatVars,
                   raceVars>>

AddDocumentToSession(session_id, document_id) ==
    LET a == add_document_to_session(sessions, now, session_id, document_id)
    IN  /\ sessions' = a.files
        /\ sess_ret' = [op |-> "add_document_to_session", sid |-> session_id,
                        found |-> a.data # None, expired |-> FALSE]
        /\ UNCHANGED <<now, issued, cfgVars, vsVars, mdlVars, ppVars, chatVars,
                   raceVars>>

AddChatMessage(session_id, message) ==
    LET a == add_chat_message(sessions, now, session_id, message)
    IN  /\ sessions[session_id] # NoFile
           => Len(sessions[session_id][1].chat_history) < MaxMessages
        /\ sessions' = a.files
        /\ sess_ret' = [op |-> "add_chat_message", sid |-> session_id,
                        found |-> a.data # None, expired |-> FALSE]
        /\ UNCHANGED <<now, issued, cfgVars, vsVars, mdlVars, ppVars, chatVars,
                   raceVars>>

DeleteSession(session_id) ==
    LET r == delete_session(sessions, session_id)
    IN  /\ sessions' = r.files
        /\ sess_ret' = [op |-> "delete_session", sid |-> session_id,
                        found |-> r.ret, expired |-> FALSE]
        /\ UNCHANGED <<now, issued, cfgVars, vsVars, mdlVars, ppVars, chatVars,
                   raceVars>>

(***************************************************************************)
(* get_session, file operation by file operation, for calls that overlap:  *)
(* os.path.exists, open(path, "r") with json.load, os.remove, open(path,    *)
(* "w"), which truncates the file, and json.dump with the close, which     *)
(* writes it.  No lock is held and no file is replaced atomically.         *)
(***************************************************************************)
\* What a session is when a call starts: missing, expired or live.
SessionStatus(session_id) ==
    IF sessions[session_id] = NoFile THEN "missing"
    ELSE IF now - sessions[session_id][1].last_accessed > session_timeout
    THEN "expired" ELSE "live"

\* A caller enters get_session(session_id).
GetSessionCall(c, session_id) ==
    /\ calls[c].pc = "idle"
    /\ calls' = [calls EXCEPT ![c] = [IdleCall EXCEPT !.op = "get_session",
                                                      !.pc = "exists",
                                                      !.sid = session_id,
                                                      !.was = SessionStatus(session_id)]]
    /\ UNCHANGED <<now, sessions, issued, sess_ret, torn, cfgVars, vsVars,
                   mdlVars, ppVars, chatVars>>

\* The next file operation of the get_session call of caller c.
GetSessionStep(c) ==
    LET call == calls[c]
        sid  == call.sid
        Return(ret) == [call EXCEPT !.pc = "done", !.ret = ret]
    IN  /\ call.op = "get_session"
        /\ call.pc \in {"exists", "load", "delete", "open", "write"}
        /\ CASE call.pc = "exists" ->
                  /\ calls' = [calls EXCEPT ![c] =
                                 IF sessions[sid] = NoFile THEN Return(None)
                                 ELSE [call EXCEPT !.pc = "load"]]
                  /\ UNCHANGED <<sessions, torn>>
             [] call.pc = "load" ->
                  /\ calls' = [calls EXCEPT ![c] =
                                 IF sessions[sid] = NoFile \/ sid \in torn
                                 THEN Return(None)
                                 ELSE IF now - sessions[sid][1].last_accessed > session_timeout
                                 THEN [call EXCEPT !.pc = "delete"]
                                 ELSE [call EXCEPT !.pc = "open",
                                         !.data = Some([sessions[sid][1] EXCEPT
                                                          !.last_accessed = now])]]
                  /\ UNCHANGED <<sessions, torn>>
             [] call.pc = "delete" ->
                  /\ sessions' = delete_session(sessions, sid).files
                  /\ torn' = torn \ {sid}
                  /\ calls' = [calls EXCEPT ![c] = Return(None)]
             [] call.pc = "open" ->
                  /\ sessions' = IF sessions[sid] = NoFile
                                 THEN [sessions EXCEPT ![sid] = call.data]
                                 ELSE sessions
                  /\ torn' = torn \cup {sid}
                  /\ calls' = [calls EXCEPT ![c] = [call EXCEPT !.pc = "write"]]
             [] call.pc = "write" ->
                  /\ sessions' = [sessions EXCEPT ![sid] = call.data]
                  /\ torn' = torn \ {sid}
                  /\ calls' = [calls EXCEPT ![c] = Return(call.data)]
        /\ UNCHANGED <<now, issued, sess_ret, cfgVars, vsVars, mdlVars, ppVars,
                       chatVars>>

\* The clock moves while no call is inside the service.
TickBetweenCalls ==
    /\ \A c \in Callers : calls[c].pc \in {"idle", "done"}
    /\ TickBy({LongStep})

(***************************************************************************)
(* vector_store.py.  A document index is the sequence of its chunks, each  *)
(* chunk the text and the provider class that computed its vector.  The    *)
(* VectorStore object is the record vector_store; faiss_files[d] is the    *)
(* file store_dir/d.faiss.                                                 *)
(***************************************************************************)
MaxDocs == 2
MaxChunks == 2
MaxBatch == 2

DocIds == 1..MaxDocs

\* Chunk texts: one with content, and the texts add_texts has to skip.
Texts == {"t1"}
BlankTexts == {"", " "}
IsBlank(text) == text \in BlankTexts
Batches == UNION {[1..k -> Texts \cup BlankTexts] : k \in 0..MaxBatch}

\* The text get_store seeds a new index with.
SeedText == "Initial document"

\* Embedding type names as callers pass them, and str.strip() on them.
EmbeddingTypes == {"openai", "huggingface"}
Trim(t) ==
    CASE t = " openai " -> "openai"
      [] t = "huggingface " -> "huggingface"
      [] OTHER -> t

\* VectorStore._create_embeddings: the provider class built for a type name;
\* it raises for "openai" when OPENAI_API_KEY is not set.
create_embeddings_raises(embedding_type) ==
    embedding_type = "openai" /\ ~api_key_set

create_embeddings(embedding_type) ==
    IF embedding_type = "openai" THEN "OpenAIEmbeddings" ELSE "HuggingFaceEmbeddings"

NoStores == [d \in DocIds |-> None]

\* A plausible slip: the provider is switched and the in-memory indexes stay.
update_embeddings_KeepStores(vs, embedding_type) ==
    LET new_type     == Trim(embedding_type)
        current_type == Trim(vs.embedding_type)
    IN  IF new_type # current_type
        THEN IF create_embeddings_raises(new_type)
             THEN [vs |-> vs, raised |-> TRUE]
             ELSE [vs |-> [vs EXCEPT !.embedding_type = new_type,
                                     !.embeddings = create_embeddings(new_type)],
                   raised |-> FALSE]
        ELSE [vs |-> vs, raised |-> FALSE]

\* VectorStore.update_embeddings on the store vs: the store afterwards, and
\* whether the call raised.
update_embeddings(vs, embedding_type) ==
    LET new_type     == Trim(embedding_type)
        current_type == Trim(vs.embedding_type)
    IN  IF new_type # current_type
        THEN IF create_embeddings_raises(new_type)
             THEN [vs |-> vs, raised |-> TRUE]
             ELSE [vs |-> [embedding_type |-> new_type,
                           embeddings |-> create_embeddings(new_type),
                           stores |-> NoStores],
                   raised |-> FALSE]
        ELSE [vs |-> vs, raised |-> FALSE]

\* FAISS.from_texts(["Initial document"], self.embeddings)
SeedIndex(vs) == <<[text |-> SeedText, by |-> vs.embeddings]>>

\* What is at the path of an index when FAISS.load_local cannot read it: no
\* provider's index.  load_local raises on it.
UnreadableIndex == <<[text |-> "", by |-> ""]>>

\* VectorStore.get_store: reconcile with the configured embedding type, then
\* return the in-memory index, loading the .faiss file or seeding a new one.
\* Nothing catches what load_local raises.
get_store(vs, files, config, doc_id) ==
    LET u == IF config.embedding_type # vs.embedding_type
             THEN update_embeddings(vs, config.embedding_type)
             ELSE [vs |-> vs, raised |-> FALSE]
    IN  IF u.raised \/ (u.vs.stores[doc_id] = None /\ files[doc_id] = Some(UnreadableIndex))
        THEN [vs |-> u.vs, raised |-> TRUE, store |-> None]
        ELSE LET index == IF u.vs.stores[doc_id] # None THEN u.vs.stores[doc_id][1]
                          ELSE IF files[doc_id] # NoFile THEN files[doc_id][1]
                          ELSE SeedIndex(u.vs)
             IN  [vs |-> [u.vs EXCEPT !.stores[doc_id] = Some(index)],
                  raised |-> FALSE,
                  store |-> Some(index)]

\* [text for text in texts if text and text.strip()]
RECURSIVE ValidTexts(_)
ValidTexts(texts) ==
    IF texts = <<>> THEN <<>>
    ELSE (IF IsBlank(Head(texts)) THEN <<>> ELSE <<Head(texts)>>) \o ValidTexts(Tail(texts))

\* store.add_documents(docs): each text embedded by the store's provider.
Embedded(vs, texts) == [i \in 1..Len(texts) |-> [text |-> texts[i], by |-> vs.embeddings]]

\* The FAISS index behind a store takes and searches only vectors of its own
\* dimension (index.add and index.search assert d == self.d), and the two
\* providers differ in dimension: vectors of a provider fit an index exactly
\* when the index was built by that provider.
SameSpace(index, provider) == index = <<>> \/ index[1].by = provider

\* A plausible slip: add_documents appends whatever the current provider
\* produces, whichever provider built the index.
add_texts_Mixing(vs, files, config, doc_id, texts) ==
    IF texts = <<>> \/ ValidTexts(texts) = <<>>
    THEN [vs |-> vs, files |-> files, raised |-> FALSE]
    ELSE LET g == get_store(vs, files, config, doc_id)
         IN  IF g.raised
             THEN [vs |-> g.vs, files |-> files, raised |-> TRUE]
             ELSE LET index == g.store[1] \o Embedded(g.vs, ValidTexts(texts))
                  IN  [vs |-> [g.vs EXCEPT !.stores[doc_id] = Some(index)],
                       files |-> [files EXCEPT ![doc_id] = Some(index)],
                       raised |-> FALSE]

\* A plausible slip: the batch is embedded as given, blank texts included.
add_texts_NoFilter(vs, files, config, doc_id, texts) ==
    IF texts = <<>>
    THEN [vs |-> vs, files |-> files, raised |-> FALSE]
    ELSE LET g == get_store(vs, files, config, doc_id)
         IN  IF g.raised
             THEN [vs |-> g.vs, files |-> files, raised |-> TRUE]
             ELSE IF ~SameSpace(g.store[1], g.vs.embeddings)
             THEN [vs |-> g.vs, files |-> files, raised |-> TRUE]
             ELSE LET index == g.store[1] \o Embedded(g.vs, texts)
                  IN  [vs |-> [g.vs EXCEPT !.stores[doc_id] = Some(index)],
                       files |-> [files EXCEPT ![doc_id] = Some(index)],
                       raised |-> FALSE]

\* VectorStore.add_texts: the store and the files afterwards.  An add to an
\* index of another provider raises inside add_documents, before the index
\* or its file is changed; the index get_store loaded stays in memory.
add_texts(vs, files, config, doc_id, texts) ==
    IF texts = <<>> \/ ValidTexts(texts) = <<>>
    THEN [vs |-> vs, files |-> files, raised |-> FALSE]
    ELSE LET g == get_store(vs, files, config, doc_id)
         IN  IF g.raised
             THEN [vs |-> g.vs, files |-> files, raised |-> TRUE]
             ELSE IF ~SameSpace(g.store[1], g.vs.embeddings)
             THEN [vs |-> g.vs, files |-> files, raised |-> TRUE]
             ELSE LET index == g.store[1] \o Embedded(g.vs, ValidTexts(texts))
                  IN  [vs |-> [g.vs EXCEPT !.stores[doc_id] = Some(index)],
                       files |-> [files EXCEPT ![doc_id] = Some(index)],
                       raised |-> FALSE]

\* VectorStore.get_document: the store afterwards, whether it raised, and
\* the page_content of the chunk similarity_search("", k=1) returns, None
\* when it returns none.  pick chooses the chunk nearest to the empty query;
\* the search of an index built by another provider raises.
get_document(vs, files, config, doc_id, pick) ==
    LET g == get_store(vs, files, config, doc_id)
    IN  IF g.raised \/ ~SameSpace(g.store[1], g.vs.embeddings)
        THEN [vs |-> g.vs, raised |-> TRUE, text |-> None]
        ELSE LET index == g.store[1]
             IN  [vs |-> g.vs, raised |-> FALSE,
                  text |-> IF index = <<>> THEN None
                           ELSE Some(index[((pick - 1) % Len(index)) + 1].text)]

\* VectorStore.delete_document: the store and the files afterwards, and
\* whether it raised.  What save_local wrote at store_dir/<doc_id>.faiss is
\* a directory (holding index.faiss and index.pkl), and os.remove on a
\* directory raises OSError: the call fails there, before the in-memory
\* index is dropped, whenever the document has durable state.
delete_document(vs, files, doc_id) ==
    IF files[doc_id] # NoFile
    THEN [vs |-> vs, files |-> files, raised |-> TRUE]
    ELSE [vs |-> [vs EXCEPT !.stores[doc_id] = None], files |-> files,
          raised |-> FALSE]

(***************************************************************************)
(* model_service.py: the configuration.  current_config is the dict of     *)
(* ModelService; temperature, top_p and repeat_penalty are counted in      *)
(* hundredths (temperature 0.1 is 10).  A caller's config dict is a record *)
(* of the keys it has (has), those of them whose value is None (none) and  *)
(* the values of the others.                                               *)
(***************************************************************************)
MaxKeys == 2

NumericOrder ==
    <<"temperature", "top_p", "repeat_penalty", "max_tokens", "n_ctx", "gpu_layers">>
NumParams == {NumericOrder[i] : i \in 1..Len(NumericOrder)}
ConfigKeys == {"model_type", "embedding_type"} \cup NumParams

\* A plausible slip: the ends of the ranges are excluded.
InRange_Exclusive(param, value) ==
    CASE param = "temperature"    -> 0 < value /\ value < 200
      [] param = "top_p"          -> 0 < value /\ value < 100
      [] param = "repeat_penalty" -> 100 < value
      [] param = "max_tokens"     -> 1 < value
      [] param = "n_ctx"          -> 1 < value
      [] param = "gpu_layers"     -> -1 < value

\* numeric_params: min_val <= value <= max_val, max_val infinite for four.
InRange(param, value) ==
    CASE param = "temperature"    -> 0 <= value /\ value <= 200
      [] param = "top_p"          -> 0 <= value /\ value <= 100
      [] param = "repeat_penalty" -> 100 <= value
      [] param = "max_tokens"     -> 1 <= value
      [] param = "n_ctx"          -> 1 <= value
      [] param = "gpu_layers"     -> -1 <= value

\* The values callers send for a key: on both sides of each range's ends.
NumInputs(param) ==
    CASE param = "temperature"    -> {-1, 0, 200, 201}
      [] param = "top_p"          -> {0, 101}
      [] param = "repeat_penalty" -> {99, 100}
      [] param = "max_tokens"     -> {0, 1}
      [] param = "n_ctx"          -> {0, 1}
      [] param = "gpu_layers"     -> {-2, -1}
ModelTypeInputs == {"openai", "local", "llama"}
EmbeddingTypeInputs == {"openai", "huggingface", "bert"}

\* The config dicts with the keys h, of which those in n are None.
ConfigsWith(h, n) ==
    LET Given(k) == k \in h \ n
        V(param) == IF Given(param) THEN NumInputs(param) ELSE {0}
    IN  { [has |-> h, none |-> n, model_type |-> m, embedding_type |-> e,
           temperature |-> v1, top_p |-> v2, repeat_penalty |-> v3,
           max_tokens |-> v4, n_ctx |-> v5, gpu_layers |-> v6] :
          m \in (IF Given("model_type") THEN ModelTypeInputs ELSE {""}),
          e \in (IF Given("embedding_type") THEN EmbeddingTypeInputs ELSE {""}),
          v1 \in V("temperature"), v2 \in V("top_p"), v3 \in V("repeat_penalty"),
          v4 \in V("max_tokens"), v5 \in V("n_ctx"), v6 \in V("gpu_layers") }

ConfigInputs ==
    UNION { UNION { ConfigsWith(h, n) : n \in SUBSET h } :
            h \in {x \in SUBSET ConfigKeys : Cardinality(x) <= MaxKeys} }

\* "key in config and config[key] is not None"
Given(config, key) == key \in config.has /\ key \notin config.none

\* The embedding type update_config derives from a model type.
DefaultEmbedding(model_type) ==
    IF model_type = "openai" THEN "openai" ELSE "huggingface"

RECURSIVE ApplyNumeric(_, _, _)
\* The loop over numeric_params: each given value is validated and stored in
\* turn; the first one out of range raises, naming its key.
ApplyNumeric(cfg, config, params) ==
    IF params = <<>> THEN [cfg |-> cfg, raised |-> FALSE, field |-> ""]
    ELSE LET param == Head(params)
         IN  IF Given(config, param)
             THEN IF ~InRange(param, config[param])
                  THEN [cfg |-> cfg, raised |-> TRUE, field |-> param]
                  ELSE ApplyNumeric([cfg EXCEPT ![param] = config[param]],
                                    config, Tail(params))
             ELSE ApplyNumeric(cfg, config, Tail(params))

\* ModelService.update_config on the configuration cfg and the vector store
\* vs: both afterwards, whether the call raised, the name its error gives
\* and how the call wrote embedding_type, if it did: "default" from the model
\* type (line 52) or "explicit" from the caller's value (line 78).
update_config(cfg, vs, config) ==
    LET mt_given == Given(config, "model_type")
        et_given == Given(config, "embedding_type")
    IN
    IF mt_given /\ config.model_type \notin {"openai", "local"}
    THEN [cfg |-> cfg, vs |-> vs, raised |-> TRUE, field |-> "model type",
          wrote |-> ""]
    ELSE
    LET should1 == mt_given /\ config.model_type # cfg.model_type
        cfg1 == IF mt_given
                THEN [cfg EXCEPT
                        !.model_type = config.model_type,
                        !.embedding_type =
                            IF "embedding_type" \notin config.has
                            THEN DefaultEmbedding(config.model_type)
                            ELSE @]
                ELSE cfg
        wrote1 == IF mt_given /\ "embedding_type" \notin config.has
                  THEN "default" ELSE ""
        num == ApplyNumeric(cfg1, config, NumericOrder)
    IN
    IF num.raised
    THEN [cfg |-> num.cfg, vs |-> vs, raised |-> TRUE, field |-> num.field,
          wrote |-> wrote1]
    ELSE IF et_given /\ config.embedding_type \notin {"huggingface", "openai"}
    THEN [cfg |-> num.cfg, vs |-> vs, raised |-> TRUE, field |-> "embedding type",
          wrote |-> wrote1]
    ELSE
    LET should2 == should1
                   \/ (et_given /\ config.embedding_type # num.cfg.embedding_type)
        cfg2 == IF et_given
                THEN [num.cfg EXCEPT !.embedding_type = config.embedding_type]
                ELSE num.cfg
        u == IF should2 THEN update_embeddings(vs, cfg2.embedding_type)
             ELSE [vs |-> vs, raised |-> FALSE]
    IN  [cfg |-> cfg2, vs |-> u.vs, raised |-> u.raised,
         field |-> IF u.raised THEN "OPENAI_API_KEY" ELSE "",
         wrote |-> IF et_given THEN "explicit" ELSE wrote1]

\* The names a validation error of update_config gives.
ValidationFields == NumParams \cup {"model type", "embedding type"}

NoVsRet == [op |-> "", doc |-> 0, raised |-> FALSE, store |-> None, text |-> None]

\* A call of model_service.update_config(config).
UpdateConfigWith(config) ==
    LET r == update_config(current_config, vector_store, config)
    IN  /\ current_config' = r.cfg
        /\ vector_store' = r.vs
        /\ cfg_ret' = [raised |-> r.raised, field |-> r.field,
                       explicit |-> IF r.wrote = "" THEN cfg_ret.explicit
                                    ELSE r.wrote = "explicit"]
        /\ vs_ret' = NoVsRet
        /\ UNCHANGED <<api_key_set, faiss_files, sessVars, mdlVars, ppVars, chatVars>>

UpdateConfig == \E config \in ConfigInputs : UpdateConfigWith(config)

\* Calls that probe the validation: every key alone, with a value or None,
\* top_p on both sides of both ends of its range, and three pairs of keys.
ValidationInputs ==
    UNION { ConfigsWith({k}, {}) \cup ConfigsWith({k}, {k}) : k \in ConfigKeys }
    \cup { [config EXCEPT !.top_p = v] :
             config \in ConfigsWith({"top_p"}, {}), v \in {-1, 100} }
    \cup ConfigsWith({"temperature", "top_p"}, {})
    \cup ConfigsWith({"model_type", "max_tokens"}, {})
    \cup ConfigsWith({"gpu_layers", "embedding_type"}, {})

ValidateConfig == \E config \in ValidationInputs : UpdateConfigWith(config)

\* update_config with the keys that choose the embedding type only.
UpdateEmbeddingConfig ==
    \E config \in ConfigInputs :
        /\ config.has \subseteq {"model_type", "embedding_type"}
        /\ UpdateConfigWith(config)

\* ModelService.__init__ with the defaults of core/config.py.
InitConfigWith(keys) ==
    /\ api_key_set \in keys
    /\ current_config = [model_type |-> "openai", temperature |-> 10,
                         max_tokens |-> 512, top_p |-> 95, repeat_penalty |-> 120,
                         n_ctx |-> 4096, gpu_layers |-> -1,
                         embedding_type |-> "openai"]
    /\ cfg_ret = [raised |-> FALSE, field |-> "", explicit |-> FALSE]

\* OPENAI_API_KEY set or not; and the deployment with the key set.
InitConfig == InitConfigWith(BOOLEAN)
InitConfigKeySet == InitConfigWith({TRUE})

(***************************************************************************)
(* Calls of the vector store.                                              *)
(***************************************************************************)
\* get_vector_store: VectorStore.__init__ under settings.DEFAULT_EMBEDDING_TYPE,
\* which core/config.py does not define: either type the constructor takes.
InitVectorStoreWith(types) ==
    /\ \E t \in types :
          /\ ~create_embeddings_raises(t)
          /\ vector_store = [embedding_type |-> t,
                             embeddings |-> create_embeddings(t),
                             stores |-> NoStores]
    /\ faiss_files = [d \in DocIds |-> NoFile]
    /\ vs_ret = NoVsRet

InitVectorStore == InitVectorStoreWith(EmbeddingTypes)
InitVectorStoreOpenAI == InitVectorStoreWith({"openai"})

IndexLen(files, vs, doc_id) ==
    IF vs.stores[doc_id] # None THEN Len(vs.stores[doc_id][1])
    ELSE IF files[doc_id] # NoFile THEN Len(files[doc_id][1])
    ELSE 1

\* Type names update_embeddings is called with: the two known ones, the same
\* with surrounding blanks, and a name _create_embeddings does not know.
EmbeddingTypeArgs == {"openai", "huggingface", " openai ", "huggingface ", "bert"}

UpdateEmbeddings(embedding_type) ==
    LET u == update_embeddings(vector_store, embedding_type)
    IN  /\ vector_store' = u.vs
        /\ vs_ret' = [op |-> "update_embeddings", doc |-> 0,
                      raised |-> u.raised, store |-> None, text |-> None]
        /\ UNCHANGED <<faiss_files, sessVars, cfgVars, mdlVars, ppVars, chatVars>>

GetStoreWith(doc_id) ==
    LET g == get_store(vector_store, faiss_files, current_config, doc_id)
    IN  /\ vector_store' = g.vs
        /\ vs_ret' = [op |-> "get_store", doc |-> doc_id,
                      raised |-> g.raised, store |-> g.store, text |-> None]
        /\ UNCHANGED <<faiss_files, sessVars, cfgVars, mdlVars, ppVars, chatVars>>

GetStore == \E doc_id \in DocIds : GetStoreWith(doc_id)

\* The environment damages the index file of a document: the path still
\* exists and load_local no longer reads it.
DamageFile ==
    \E doc_id \in DocIds :
        /\ faiss_files[doc_id] # NoFile
        /\ faiss_files[doc_id] # Some(UnreadableIndex)
        /\ faiss_files' = [faiss_files EXCEPT ![doc_id] = Some(UnreadableIndex)]
        /\ vs_ret' = NoVsRet
        /\ UNCHANGED <<vector_store, sessVars, cfgVars, mdlVars, ppVars, chatVars>>

AddTextsWith(doc_id, texts) ==
    LET a == add_texts(vector_store, faiss_files, current_config, doc_id, texts)
    IN  /\ IndexLen(faiss_files, vector_store, doc_id) + Len(ValidTexts(texts))
             <= MaxChunks + 1
        /\ vector_store' = a.vs
        /\ faiss_files' = a.files
        /\ vs_ret' = [op |-> "add_texts", doc |-> doc_id,
                      raised |-> a.raised, store |-> None, text |-> None]
        /\ UNCHANGED <<sessVars, cfgVars, mdlVars, ppVars, chatVars>>

AddTexts == \E doc_id \in DocIds, texts \in Batches : AddTextsWith(doc_id, texts)

GetDocumentWith(doc_id, pick) ==
    LET g == get_document(vector_store, faiss_files, current_config, doc_id, pick)
    IN  /\ vector_store' = g.vs
        /\ vs_ret' = [op |-> "get_document", doc |-> doc_id,
                      raised |-> g.raised, store |-> None, text |-> g.text]
        /\ UNCHANGED <<faiss_files, sessVars, cfgVars, mdlVars, ppVars, chatVars>>

GetDocument ==
    \E doc_id \in DocIds, pick \in 1..(MaxChunks + 1) : GetDocumentWith(doc_id, pick)

DeleteDocument ==
    \E doc_id \in DocIds :
        LET r == delete_document(vector_store, faiss_files, doc_id)
        IN  /\ vector_store' = r.vs
            /\ faiss_files' = r.files
            /\ vs_ret' = [op |-> "delete_document", doc |-> doc_id,
                          raised |-> r.raised, store |-> None, text |-> None]
            /\ UNCHANGED <<sessVars, cfgVars, mdlVars, ppVars, chatVars>>

(***************************************************************************)
(* model_service.py: local model upload.  A file name is a sequence of     *)
(* characters; model_files maps each name of FileNames to the bytes stored *)
(* under MODEL_DIR/name, when that file exists.                            *)
(***************************************************************************)
MaxBlob == 1
Blobs == 1..MaxBlob

FileNames == {
    <<"m", ".", "g", "g", "u", "f">>,
    <<"m", ".", "G", "G", "U", "F">>,
    <<"m", ".", "s", "a", "f", "e", "t", "e", "n", "s", "o", "r", "s">>,
    <<"m", ".", "b", "i", "n">>,
    <<"m", ".", "p", "t">>,
    <<"m", ".", "P", "t", "h">>,
    <<"m", ".", "x", "y", "z">>,
    <<"m", ".", "g", "g", "u", "f", ".", "x", "y", "z">>,
    <<"m", ".", "p", "t", "x">>,
    <<".", "g", "g", "u", "f">>,
    <<"g", "g", "u", "f">>,
    <<"m", ".">> }

\* str.lower() on one character.
LowerChar(c) ==
    CASE c = "G" -> "g" [] c = "U" -> "u" [] c = "F" -> "f"
      [] c = "P" -> "p" [] c = "T" -> "t" [] c = "H" -> "h"
      [] OTHER -> c

Lower(s) == [i \in 1..Len(s) |-> LowerChar(s[i])]

\* os.path.splitext(name)[1] for a name without directory separators: the
\* text from the last dot on, unless only dots precede that dot.
SplitExt(name) ==
    LET dots == {i \in 1..Len(name) : name[i] = "."}
    IN  IF dots = {} THEN <<>>
        ELSE LET dotIndex == CHOOSE i \in dots : \A j \in dots : j <= i
             IN  IF \E k \in 1..(dotIndex - 1) : name[k] # "."
                 THEN SubSeq(name, dotIndex, Len(name))
                 ELSE <<>>

\* ModelService.supported_extensions
supported_extensions == {
    <<".", "g", "g", "u", "f">>,
    <<".", "s", "a", "f", "e", "t", "e", "n", "s", "o", "r", "s">>,
    <<".", "b", "i", "n">>,
    <<".", "p", "t">>,
    <<".", "p", "t", "h">> }

\* ModelService._validate_model_file: TRUE when it returns, FALSE when it
\* raises ValueError.
validate_model_file(filename) ==
    Lower(SplitExt(filename)) \in supported_extensions

\* A plausible slip: the file is written before its name is validated.
upload_local_model_WriteFirst(model_file, filename) ==
    /\ model_dir_exists' = TRUE
    /\ model_files' = [model_files EXCEPT ![filename] = Some(model_file)]
    /\ upload_ret' = IF validate_model_file(filename)
                     THEN [filename |-> filename, raised |-> FALSE, path |-> filename]
                     ELSE [filename |-> filename, raised |-> TRUE, path |-> None]

\* ModelService.upload_local_model: validate, create MODEL_DIR when it is
\* missing, write the bytes, return the path.
upload_local_model(model_file, filename) ==
    IF ~validate_model_file(filename)
    THEN /\ upload_ret' = [filename |-> filename, raised |-> TRUE, path |-> None]
         /\ UNCHANGED <<model_dir_exists, model_files>>
    ELSE /\ model_dir_exists' = TRUE
         /\ model_files' = [model_files EXCEPT ![filename] = Some(model_file)]
         /\ upload_ret' = [filename |-> filename, raised |-> FALSE, path |-> filename]

InitModelDir ==
    /\ model_dir_exists = FALSE
    /\ model_files = [f \in FileNames |-> NoFile]
    /\ upload_ret = [filename |-> None, raised |-> FALSE, path |-> None]

UploadLocalModelFrom(names) ==
    /\ \E model_file \in Blobs, filename \in names :
          upload_local_model(model_file, filename)
    /\ UNCHANGED <<sessVars, cfgVars, vsVars, ppVars, chatVars>>

UploadLocalModel == UploadLocalModelFrom(FileNames)

(***************************************************************************)
(* Post-processing applied to a generated text, and to its own output.     *)
(***************************************************************************)
InitPP ==
    /\ pp_pc = "in"
    /\ pp_x = <<>>
    /\ pp_y = <<>>
    /\ pp_z = <<>>

PostprocessOnce ==
    /\ pp_pc = "in"
    /\ pp_y' = postprocess_text(pp_x)
    /\ pp_pc' = "once"
    /\ UNCHANGED <<pp_x, pp_z, sessVars, cfgVars, vsVars, mdlVars, chatVars>>

PostprocessTwice ==
    /\ pp_pc = "once"
    /\ pp_z' = postprocess_text(pp_y)
    /\ pp_pc' = "twice"
    /\ UNCHANGED <<pp_x, pp_y, sessVars, cfgVars, vsVars, mdlVars, chatVars>>

(***************************************************************************)
(* chat_service.py: a chat request through the conversation graph.  A      *)
(* question, a model output and an answer are sequences of characters; a   *)
(* turn of a history is a message with a role and a content.  The outcome  *)
(* of the LLM (it raises, or the text it returns), the chunk a similarity  *)
(* search ranks first, the order of the retrieved chunks and the order of  *)
(* os.listdir are choices of the environment.                              *)
(***************************************************************************)
MaxTurns == 8

HumanMessage(content) == [role |-> "user", content |-> content]
AIMessage(content) == [role |-> "assistant", content |-> content]

Questions == { <<"n">>, <<"d">> }
RawOutputs == { <<"e", "n", "d", "e", "n", "d">> }
\* What the LLM does when it is built and called: it raises (None), or it
\* returns a text.
LLMRaises == None
LLMOutcomes == {LLMRaises} \cup {Some(raw) : raw \in RawOutputs}

NoContext == "No relevant information found."

\* name.endswith(ext)
EndsWith(name, ext) ==
    /\ Len(name) >= Len(ext)
    /\ SubSeq(name, Len(name) - Len(ext) + 1, Len(name)) = ext

\* The position of an extension under the string order sort() compares by.
ExtRank(ext) ==
    CASE ext = <<>> -> 0
      [] ext = <<".", "b", "i", "n">> -> 1
      [] ext = <<".", "g", "g", "u", "f">> -> 2
      [] ext = <<".", "p", "t">> -> 3
      [] ext = <<".", "p", "t", "h">> -> 4
      [] OTHER -> 5

\* The files of MODEL_DIR the loop over the five extensions collects, and
\* those of them sort() may leave first.
ListedModels(mfiles) ==
    {f \in DOMAIN mfiles :
        mfiles[f] # NoFile /\ \E ext \in supported_extensions : EndsWith(f, ext)}
DefaultModels(mfiles) ==
    {f \in ListedModels(mfiles) :
        \A g \in ListedModels(mfiles) :
            ExtRank(Lower(SplitExt(f))) <= ExtRank(Lower(SplitExt(g)))}

\* A plausible slip: the extension is compared as written.
infer_model_type_from_path_CaseSensitive(model_path) ==
    LET ext == SplitExt(model_path)
    IN  IF ext = <<".", "g", "g", "u", "f">> THEN Some("llama")
        ELSE IF ext = <<".", "s", "a", "f", "e", "t", "e", "n", "s", "o", "r", "s">>
        THEN Some("safetensors")
        ELSE IF ext \in {<<".", "p", "t">>, <<".", "p", "t", "h">>, <<".", "b", "i", "n">>}
        THEN Some("pytorch")
        ELSE None

\* ChatService._infer_model_type_from_path: None when it raises ValueError.
infer_model_type_from_path(model_path) ==
    LET ext == Lower(SplitExt(model_path))
    IN  IF ext = <<".", "g", "g", "u", "f">> THEN Some("llama")
        ELSE IF ext = <<".", "s", "a", "f", "e", "t", "e", "n", "s", "o", "r", "s">>
        THEN Some("safetensors")
        ELSE IF ext \in {<<".", "p", "t">>, <<".", "p", "t", "h">>, <<".", "b", "i", "n">>}
        THEN Some("pytorch")
        ELSE None

\* ChatService._get_llm: TRUE when it raises before any model is loaded.
get_llm_raises(state) ==
    IF state.model_type = "openai" THEN FALSE
    ELSE IF state.model_type = "local"
    THEN state.model_path = None
           \/ infer_model_type_from_path(state.model_path[1]) = None
    ELSE TRUE

\* A plausible slip: the cache is not consulted, every call loads the model.
get_llm_Reload(cache, n, state, load_ok) ==
    IF state.model_type = "openai"
    THEN [cache |-> cache, loads |-> n, raised |-> FALSE, llm |-> Some(0),
          loaded |-> FALSE]
    ELSE IF state.model_type # "local" \/ state.model_path = None
    THEN [cache |-> cache, loads |-> n, raised |-> TRUE, llm |-> None,
          loaded |-> FALSE]
    ELSE LET path == state.model_path[1]
         IN  IF infer_model_type_from_path(path) = None \/ ~load_ok
             THEN [cache |-> cache, loads |-> n, raised |-> TRUE, llm |-> None,
                   loaded |-> FALSE]
             ELSE [cache |-> [cache EXCEPT ![path] = Some(n + 1)],
                   loads |-> n + 1, raised |-> FALSE, llm |-> Some(n + 1),
                   loaded |-> TRUE]

\* ChatService._get_llm with the cache and the number n of models loaded so
\* far: both afterwards, whether it raised, the instance returned and
\* whether a model was loaded.  A loaded model is known by the number of its
\* load; the ChatOpenAI client, built anew on every call, is 0.  load_ok
\* says whether LlamaCpp or the HuggingFace loaders succeed on the file.
get_llm(cache, n, state, load_ok) ==
    IF state.model_type = "openai"
    THEN [cache |-> cache, loads |-> n, raised |-> FALSE, llm |-> Some(0),
          loaded |-> FALSE]
    ELSE IF state.model_type # "local" \/ state.model_path = None
    THEN [cache |-> cache, loads |-> n, raised |-> TRUE, llm |-> None,
          loaded |-> FALSE]
    ELSE LET path == state.model_path[1]
         IN  IF cache[path] # None
             THEN [cache |-> cache, loads |-> n, raised |-> FALSE,
                   llm |-> cache[path], loaded |-> FALSE]
             ELSE IF infer_model_type_from_path(path) = None \/ ~load_ok
             THEN [cache |-> cache, loads |-> n, raised |-> TRUE, llm |-> None,
                   loaded |-> FALSE]
             ELSE [cache |-> [cache EXCEPT ![path] = Some(n + 1)],
                   loads |-> n + 1, raised |-> FALSE, llm |-> Some(n + 1),
                   loaded |-> TRUE]

\* A plausible slip: the ChatState starts from an empty history.
prepare_chat_state_NoHistory(histories, cfg, vs, request) ==
    LET u == update_embeddings(vs, cfg.embedding_type)
    IN  [vs |-> u.vs, raised |-> u.raised,
         state |-> [question |-> request.question,
                    chat_history |-> <<>>,
                    document_ids |-> request.document_ids,
                    model_type |-> cfg.model_type,
                    model_path |-> None,
                    embedding_type |-> cfg.embedding_type,
                    retrieved_docs |-> <<>>,
                    response |-> <<>>]]

\* ChatService._prepare_chat_state: the vector store afterwards and the
\* ChatState built, which holds a copy of the stored history.
prepare_chat_state(histories, cfg, vs, request) ==
    LET u == update_embeddings(vs, cfg.embedding_type)
    IN  [vs |-> u.vs, raised |-> u.raised,
         state |-> [question |-> request.question,
                    chat_history |-> histories[request.session_id],
                    document_ids |-> request.document_ids,
                    model_type |-> cfg.model_type,
                    model_path |-> None,
                    embedding_type |-> cfg.embedding_type,
                    retrieved_docs |-> <<>>,
                    response |-> <<>>]]

\* prepare_inputs: the user's message is appended to the state's history.
prepare_inputs(state) ==
    [state EXCEPT !.chat_history = Append(@, HumanMessage(state.question))]

RECURSIVE retrieve_documents(_, _, _, _, _)
\* The loop of retrieve_documents: get_document for each id, which is the
\* chunk of the index of that id nearest to the empty query (pick chooses
\* it), split into the chunks of the text splitter (a short text is one).
\* The search of an index built by another provider raises.
retrieve_documents(vs, files, config, document_ids, pick) ==
    IF document_ids = <<>> THEN [vs |-> vs, docs |-> <<>>, raised |-> FALSE]
    ELSE LET g == get_store(vs, files, config, Head(document_ids))
         IN  IF g.raised \/ ~SameSpace(g.store[1], g.vs.embeddings)
             THEN [vs |-> g.vs, docs |-> <<>>, raised |-> TRUE]
             ELSE LET index == g.store[1]
                      doc   == IF index = <<>> THEN ""
                               ELSE index[((Head(pick) - 1) % Len(index)) + 1].text
                      rest  == retrieve_documents(g.vs, files, config,
                                                  Tail(document_ids), Tail(pick))
                  IN  [vs |-> rest.vs,
                       docs |-> (IF doc = "" THEN <<>> ELSE <<doc>>) \o rest.docs,
                       raised |-> rest.raised]

Reverse(seq) == [i \in 1..Len(seq) |-> seq[Len(seq) + 1 - i]]

\* What generate_response hands to the LLM: the context, the history and the
\* question.  The OpenAI prompt takes chat_history[:-1], the template of the
\* other models the whole history, one line a turn.
LLMInput(state, retrieved_docs) ==
    [called |-> TRUE,
     context |-> IF retrieved_docs = <<>> THEN <<NoContext>> ELSE retrieved_docs,
     chat_history |-> IF state.model_type = "openai"
                      THEN SubSeq(state.chat_history, 1, Len(state.chat_history) - 1)
                      ELSE state.chat_history,
     question |-> state.question]
NoLLMInput == [called |-> FALSE, context |-> <<>>, chat_history |-> <<>>,
               question |-> <<>>]

\* A plausible slip: the raw model output is returned and stored as it is.
generate_response_Raw(state, retrieved_docs, llm) ==
    IF get_llm_raises(state)
    THEN [raised |-> TRUE, state |-> state, response |-> <<>>, llm_input |-> NoLLMInput]
    ELSE IF llm = LLMRaises
    THEN [raised |-> TRUE, state |-> state, response |-> <<>>,
          llm_input |-> LLMInput(state, retrieved_docs)]
    ELSE [raised |-> FALSE,
          state |-> [state EXCEPT !.chat_history = Append(@, AIMessage(llm[1]))],
          response |-> llm[1],
          llm_input |-> LLMInput(state, retrieved_docs)]

\* generate_response: the LLM is built and called; its output is
\* post-processed, appended as the assistant's message and set as response.
generate_response(state, retrieved_docs, llm) ==
    IF get_llm_raises(state)
    THEN [raised |-> TRUE, state |-> state, response |-> <<>>, llm_input |-> NoLLMInput]
    ELSE IF llm = LLMRaises
    THEN [raised |-> TRUE, state |-> state, response |-> <<>>,
          llm_input |-> LLMInput(state, retrieved_docs)]
    ELSE LET answer == postprocess_text(llm[1])
         IN  [raised |-> FALSE,
              state |-> [state EXCEPT !.chat_history = Append(@, AIMessage(answer))],
              response |-> answer,
              llm_input |-> LLMInput(state, retrieved_docs)]

\* A plausible slip: without a local model file the request is answered by
\* the OpenAI model instead of failing.
process_chat_request_Fallback(histories, cfg, vs, files, dir_exists, mfiles, request, llm, pick, rev, first) ==
    LET p == prepare_chat_state(histories, cfg, vs, request)
        Failed(stage, vs1, llm_input, model_path) ==
            [ok |-> FALSE, stage |-> stage, histories |-> histories, vs |-> vs1,
             response |-> <<>>, llm_input |-> llm_input, model_path |-> model_path]
    IN
    IF p.raised THEN Failed("prepare", p.vs, NoLLMInput, None)
    ELSE
    LET listed == IF dir_exists THEN ListedModels(mfiles) ELSE {}
        local == /\ p.state.model_type = "local"
                 /\ (request.model_path # None \/ listed # {})
        state0 == IF local THEN p.state ELSE [p.state EXCEPT !.model_type = "openai"]
        model_path == IF ~local THEN p.state.model_path
                      ELSE IF request.model_path # None THEN request.model_path
                      ELSE Some(first)
        loadable == ~local \/ (dir_exists /\ mfiles[model_path[1]] # NoFile)
        s1 == prepare_inputs([state0 EXCEPT !.model_path = model_path])
        r  == retrieve_documents(p.vs, files, cfg, s1.document_ids, pick)
    IN
    IF r.raised THEN Failed("retrieve", r.vs, NoLLMInput, model_path)
    ELSE
    LET g == generate_response(s1, IF rev THEN Reverse(r.docs) ELSE r.docs,
                               IF loadable THEN llm ELSE LLMRaises)
    IN
    IF g.raised THEN Failed("generate", r.vs, g.llm_input, model_path)
    ELSE [ok |-> TRUE, stage |-> "done",
          histories |-> [histories EXCEPT ![request.session_id] = g.state.chat_history],
          vs |-> r.vs, response |-> g.response, llm_input |-> g.llm_input,
          model_path |-> model_path]

\* ChatService.process_chat_request for one request: the histories and the
\* vector store afterwards, whether the generator yielded (ok) or raised,
\* the step that raised, the response yielded and what the LLM was handed.
\* first is the file sort() leaves first among the listed model files.
process_chat_request(histories, cfg, vs, files, dir_exists, mfiles, request, llm, pick, rev, first) ==
    LET p == prepare_chat_state(histories, cfg, vs, request)
        Failed(stage, vs1, llm_input, model_path) ==
            [ok |-> FALSE, stage |-> stage, histories |-> histories, vs |-> vs1,
             response |-> <<>>, llm_input |-> llm_input, model_path |-> model_path]
    IN
    IF p.raised THEN Failed("prepare", p.vs, NoLLMInput, None)
    ELSE
    LET local == p.state.model_type = "local"
        listed == IF dir_exists THEN ListedModels(mfiles) ELSE {}
    IN
    IF local /\ request.model_path = None /\ listed = {}
    THEN Failed("select", p.vs, NoLLMInput, None)
    ELSE
    LET model_path == IF ~local THEN p.state.model_path
                      ELSE IF request.model_path # None THEN request.model_path
                      ELSE Some(first)
        loadable == ~local \/ (dir_exists /\ mfiles[model_path[1]] # NoFile)
        s1 == prepare_inputs([p.state EXCEPT !.model_path = model_path])
        r  == retrieve_documents(p.vs, files, cfg, s1.document_ids, pick)
    IN
    IF r.raised THEN Failed("retrieve", r.vs, NoLLMInput, model_path)
    ELSE
    LET g == generate_response(s1, IF rev THEN Reverse(r.docs) ELSE r.docs,
                               IF loadable THEN llm ELSE LLMRaises)
    IN
    IF g.raised THEN Failed("generate", r.vs, g.llm_input, model_path)
    ELSE [ok |-> TRUE, stage |-> "done",
          histories |-> [histories EXCEPT ![request.session_id] = g.state.chat_history],
          vs |-> r.vs, response |-> g.response, llm_input |-> g.llm_input,
          model_path |-> model_path]

(***************************************************************************)
(* pdf_service.py: process_pdfs.  An uploaded file is the list of the      *)
(* texts of its pages, or unreadable when PdfReader raises on it.          *)
(***************************************************************************)
Unreadable == <<"unreadable">>
Pdfs == {Unreadable} \cup {<<text>> : text \in Texts \cup {" "}}
Uploads == {<<pdf>> : pdf \in Pdfs} \cup {<<p1, p2>> : p1 \in Pdfs \ {Unreadable}, p2 \in Pdfs}

RECURSIVE process_pdfs_SkipFailed(_, _, _, _, _, _)
\* A plausible slip: a file that cannot be processed is skipped and the loop
\* goes on with the next one.
process_pdfs_SkipFailed(vs, ffiles, config, last_doc, document_ids, files) ==
    IF files = <<>>
    THEN [vs |-> vs, files |-> ffiles, document_ids |-> document_ids,
          last_doc |-> last_doc, raised |-> FALSE, failing |-> 0]
    ELSE LET doc_id == last_doc + 1
             file   == Head(files)
         IN  IF file = Unreadable
             THEN process_pdfs_SkipFailed(vs, ffiles, config, doc_id,
                                          document_ids, Tail(files))
             ELSE LET all_text_chunks == ValidTexts(file)
                      a == IF all_text_chunks # <<>>
                           THEN add_texts(vs, ffiles, config, doc_id, all_text_chunks)
                           ELSE [vs |-> vs, files |-> ffiles, raised |-> FALSE]
                  IN  IF a.raised
                      THEN process_pdfs_SkipFailed(a.vs, a.files, config, doc_id,
                                                   document_ids, Tail(files))
                      ELSE process_pdfs_SkipFailed(a.vs, a.files, config, doc_id,
                                        Append(document_ids, doc_id), Tail(files))

RECURSIVE process_pdfs(_, _, _, _, _, _)
\* The loop of process_pdfs from the file at the head of files on: the
\* vector store and its files afterwards, the ids collected, the last id
\* uuid4 gave, whether the call raised and, when it did, the file the
\* exception names (file.filename), as its position in the upload: every
\* file before it has added one id.
process_pdfs(vs, ffiles, config, last_doc, document_ids, files) ==
    IF files = <<>>
    THEN [vs |-> vs, files |-> ffiles, document_ids |-> document_ids,
          last_doc |-> last_doc, raised |-> FALSE, failing |-> 0]
    ELSE LET doc_id == last_doc + 1
             file   == Head(files)
         IN  IF file = Unreadable
             THEN [vs |-> vs, files |-> ffiles, document_ids |-> document_ids,
                   last_doc |-> doc_id, raised |-> TRUE,
                   failing |-> Len(document_ids) + 1]
             ELSE LET all_text_chunks == ValidTexts(file)
                      a == IF all_text_chunks # <<>>
                           THEN add_texts(vs, ffiles, config, doc_id, all_text_chunks)
                           ELSE [vs |-> vs, files |-> ffiles, raised |-> FALSE]
                  IN  IF a.raised
                      THEN [vs |-> a.vs, files |-> a.files,
                            document_ids |-> document_ids,
                            last_doc |-> doc_id, raised |-> TRUE,
                            failing |-> Len(document_ids) + 1]
                      ELSE process_pdfs(a.vs, a.files, config, doc_id,
                                        Append(document_ids, doc_id), Tail(files))

RECURSIVE AddDocuments(_, _, _, _)
\* The loop of upload_pdfs over result["document_ids"]:
\* add_document_to_session for each, until one raises.
AddDocuments(files, t, session_id, document_ids) ==
    IF document_ids = <<>> THEN [files |-> files, raised |-> FALSE]
    ELSE LET a == add_document_to_session(files, t, session_id, Head(document_ids))
         IN  IF a.data = None THEN [files |-> a.files, raised |-> TRUE]
             ELSE AddDocuments(a.files, t, session_id, Tail(document_ids))

(***************************************************************************)
(* api/routes: an HTTP request is two steps, the get_session dependency,   *)
(* which creates a session, and then the handler with the id it returned.  *)
(* A request body is chosen when the handler runs.                         *)
(***************************************************************************)
DocIdLists == { <<>>, <<1>>, <<2>> }
ModelPathInputs == { None }
ChatRequests ==
    [question : Questions, session_id : SessionIds, document_ids : DocIdLists,
     model_path : ModelPathInputs]
\* The choices of the environment in one request: the rank of the chunk
\* get_document finds for each document id, whether the retrieved chunks
\* come in the order of the ids or the other way round, and the model file
\* that is first after the sort.
Picks(document_ids) == [1..Len(document_ids) -> 1..(MaxChunks + 1)]
Orders(document_ids) == IF Len(document_ids) >= 2 THEN BOOLEAN ELSE {FALSE}
FirstListed(mfiles) ==
    IF DefaultModels(mfiles) = {} THEN {<<>>} ELSE DefaultModels(mfiles)

NoPending == None
NoHttpRet == [route |-> "", session_id |-> 0, status |-> 0, detail |-> <<>>,
              invoked |-> FALSE, document_ids |-> <<>>]
NoChatRet == [session_id |-> 0, question |-> <<>>, document_ids |-> <<>>,
              ok |-> FALSE, stage |-> "", response |-> <<>>, raw |-> <<>>,
              llm_input |-> NoLLMInput, model_path |-> None]

NoLlmRet == [model_type |-> "", model_path |-> None, raised |-> FALSE,
             llm |-> None, loaded |-> FALSE]

InitChat ==
    /\ session_histories = [session_id \in SessionIds |-> <<>>]
    /\ next_doc = 0
    /\ pending = NoPending
    /\ http_ret = NoHttpRet
    /\ chat_ret = NoChatRet
    /\ model_cache = [f \in FileNames |-> None]
    /\ loads = 0
    /\ llm_ret = NoLlmRet

\* A call of _get_llm with the model type and path of a ChatState.
MaxLoads == 3

GetLLMWith(model_type, model_path, load_ok) ==
    /\ loads < MaxLoads
    /\ \E g \in {get_llm(model_cache, loads, [model_type |-> model_type, model_path |-> model_path], load_ok)} :
          /\ model_cache' = g.cache
          /\ loads' = g.loads
          /\ llm_ret' = [model_type |-> model_type, model_path |-> model_path,
                         raised |-> g.raised, llm |-> g.llm, loaded |-> g.loaded]
    /\ UNCHANGED <<sessVars, cfgVars, vsVars, mdlVars, ppVars,
                   session_histories, next_doc, pending, http_ret, chat_ret>>

GetLLM ==
    \E model_type \in {"openai", "local"}, load_ok \in BOOLEAN,
       model_path \in {None} \cup {Some(f) : f \in FileNames} :
        GetLLMWith(model_type, model_path, load_ok)

\* The get_session dependency of either router: a new session.
Depends(route) ==
    /\ pending = NoPending
    /\ issued < MaxSessions
    /\ issued' = issued + 1
    /\ sessions' = create_session(sessions, now, issued + 1)
    /\ pending' = Some([route |-> route, session_id |-> issued + 1])
    /\ UNCHANGED <<now, sess_ret, cfgVars, vsVars, mdlVars, ppVars,
                   session_histories, next_doc, http_ret, chat_ret, llmVars,
                   raceVars>>

ChatDepends == Depends("chat")
UploadDepends == Depends("upload")

\* str(e) for the HTTPException raised inside the handler's own try block.
SessionNotFound == <<"404: ", "Session not found">>

\* chat_stream with the session id of its dependency, and the streaming of
\* the response it returns.
ChatStreamWith(request) ==
    /\ pending # NoPending
    /\ pending[1].route = "chat"
    /\ Len(session_histories[request.session_id]) + 2 <= MaxTurns
    /\ LET session_id == pending[1].session_id
           g == get_session(sessions, now, session_id)
       IN  /\ sessions' = g.files
           /\ IF g.data = None
              THEN /\ http_ret' = [route |-> "chat", session_id |-> session_id,
                                   status |-> 500,
                                   detail |-> <<"Error processing chat request: ">>
                                                \o SessionNotFound,
                                   invoked |-> FALSE,
                                   document_ids |-> request.document_ids]
                   /\ UNCHANGED <<session_histories, chat_ret, vector_store, llmVars>>
              ELSE LET session_data == g.data[1]
                       req == IF request.document_ids = <<>>
                                 /\ session_data.document_ids # <<>>
                              THEN [request EXCEPT
                                      !.document_ids = session_data.document_ids]
                              ELSE request
                   IN  \E llm \in LLMOutcomes, pick \in Picks(req.document_ids),
                          rev \in Orders(req.document_ids),
                          first \in FirstListed(model_files) :
                         \E r \in {process_chat_request(session_histories,
                                    current_config, vector_store, faiss_files,
                                    model_dir_exists, model_files, req, llm, pick,
                                    rev, first)} :
                             /\ http_ret' = [route |-> "chat",
                                             session_id |-> session_id,
                                             status |-> 200, detail |-> <<>>,
                                             invoked |-> TRUE,
                                             document_ids |-> req.document_ids]
                             /\ session_histories' = r.histories
                             /\ vector_store' = r.vs
                             /\ chat_ret' =
                                  [session_id |-> req.session_id,
                                   question |-> req.question,
                                   document_ids |-> req.document_ids,
                                   ok |-> r.ok, stage |-> r.stage,
                                   response |-> r.response,
                                   raw |-> IF r.llm_input.called /\ llm # LLMRaises
                                           THEN llm[1] ELSE <<>>,
                                   llm_input |-> r.llm_input,
                                   model_path |-> r.model_path]
                             /\ IF r.stage \in {"generate", "done"}
                                THEN \E c \in {get_llm(model_cache, loads, [model_type |-> current_config.model_type, model_path |-> r.model_path], r.model_path # None /\ model_dir_exists /\ model_files[r.model_path[1]] # NoFile)} :
                                       /\ model_cache' = c.cache
                                       /\ loads' = c.loads
                                       /\ llm_ret' =
                                            [model_type |-> current_config.model_type,
                                             model_path |-> r.model_path,
                                             raised |-> c.raised, llm |-> c.llm,
                                             loaded |-> c.loaded]
                                ELSE UNCHANGED llmVars
    /\ pending' = NoPending
    /\ UNCHANGED <<now, issued, sess_ret, cfgVars, faiss_files, vs_ret, mdlVars,
                   ppVars, next_doc, raceVars>>

ChatStream == \E request \in ChatRequests : ChatStreamWith(request)

\* upload_pdfs with the session id of its dependency.
UploadPdfsWith(files) ==
    /\ pending # NoPending
    /\ pending[1].route = "upload"
    /\ next_doc + Len(files) <= MaxDocs
    /\ LET session_id == pending[1].session_id
           result == process_pdfs(vector_store, faiss_files, current_config,
                                  next_doc, <<>>, files)
           a == IF result.raised THEN [files |-> sessions, raised |-> TRUE]
                ELSE AddDocuments(sessions, now, session_id, result.document_ids)
       IN  /\ vector_store' = result.vs
           /\ faiss_files' = result.files
           /\ next_doc' = result.last_doc
           /\ sessions' = a.files
           /\ http_ret' = [route |-> "upload", session_id |-> session_id,
                           status |-> IF a.raised THEN 500 ELSE 200,
                           detail |-> IF a.raised THEN <<"Error processing PDFs: ">>
                                      ELSE <<"PDFs processed successfully">>,
                           invoked |-> TRUE,
                           document_ids |-> IF a.raised THEN <<>>
                                            ELSE result.document_ids]
    /\ pending' = NoPending
    /\ UNCHANGED <<now, issued, sess_ret, cfgVars, vs_ret, mdlVars, ppVars,
                   session_histories, chat_ret, llmVars, raceVars>>

UploadPdfs == \E files \in Uploads : UploadPdfsWith(files)

\* The model type chosen through the configuration route.
SelectModelType ==
    \E config \in ConfigsWith({"model_type"}, {}) :
        /\ config.model_type \in {"openai", "local"}
        /\ UpdateConfigWith(config)

ChatModelFiles == { <<"m", ".", "g", "g", "u", "f">> }

InitPost ==
    /\ pp_pc = "in"
    /\ pp_x \in Strings(MaxLen)
    /\ pp_y = <<>>
    /\ pp_z = <<>>
    /\ InitSessions
    /\ InitConfigKeySet
    /\ InitVectorStoreOpenAI
    /\ InitModelDir
    /\ InitChat

NextPost ==
    \/ PostprocessOnce
    \/ PostprocessTwice

SpecPost == InitPost /\ [][NextPost]_vars

\* C9: postprocess_text is idempotent: applying it to its own output
\* changes nothing.
C9_Idempotent == pp_pc = "twice" => pp_z = pp_y

InitUpload ==
    /\ InitSessions
    /\ InitConfigKeySet
    /\ InitVectorStoreOpenAI
    /\ InitModelDir
    /\ InitPP
    /\ InitChat

NextUpload == UploadLocalModel

SpecUpload == InitUpload /\ [][NextUpload]_vars

\* The extensions the claim lists, and the extension of a file name as the
\* claim compares it.
C10_Extensions == {
    <<".", "g", "g", "u", "f">>,
    <<".", "s", "a", "f", "e", "t", "e", "n", "s", "o", "r", "s">>,
    <<".", "b", "i", "n">>,
    <<".", "p", "t">>,
    <<".", "p", "t", "h">> }

\* C10: upload_local_model with a file name whose extension, lower-cased, is
\* none of .gguf, .safetensors, .bin, .pt, .pth raises, returns no path,
\* and leaves the model directory and every file in it as they were.
C10_RejectedBeforeWrite ==
    [][\A model_file \in Blobs, filename \in FileNames :
          (upload_local_model(model_file, filename)
             /\ Lower(SplitExt(filename)) \notin C10_Extensions)
          => /\ upload_ret'.raised
             /\ upload_ret'.path = None
             /\ model_dir_exists' = model_dir_exists
             /\ model_files' = model_files]_vars

\* An upload of m.xyz was rejected while the model directory does not exist.
C10_Witness ==
    /\ upload_ret.raised
    /\ upload_ret.filename = <<"m", ".", "x", "y", "z">>
    /\ ~model_dir_exists

InitConfigSpec ==
    /\ InitSessions
    /\ InitConfig
    /\ InitVectorStore
    /\ InitModelDir
    /\ InitPP
    /\ InitChat

NextConfig == UpdateConfig

SpecConfig == InitConfigSpec /\ [][NextConfig]_vars

InitStore ==
    /\ InitSessions
    /\ InitConfig
    /\ InitVectorStore
    /\ InitModelDir
    /\ InitPP
    /\ InitChat

NextStore ==
    \/ UpdateEmbeddingConfig
    \/ GetStore
    \/ AddTexts
    \/ DeleteDocument

SpecStore == InitStore /\ [][NextStore]_vars

\* C4: get_store never returns an index that holds a vector computed by a
\* provider other than the active one: after a switch of the embedding type
\* the index of a document is rebuilt with the new provider, or empty.
C4_NoOldVectors ==
    (vs_ret.op = "get_store" /\ vs_ret.store # None)
    => \A i \in 1..Len(vs_ret.store[1]) :
          vs_ret.store[1][i].by = vector_store.embeddings

\* C5: an update_config call that raises a validation error leaves every
\* field of current_config as it was before the call.
C5_FailedUpdateChangesNothing ==
    [][\A config \in ConfigInputs :
          (UpdateConfigWith(config) /\ cfg_ret'.raised
             /\ cfg_ret'.field \in ValidationFields)
          => current_config' = current_config]_vars

InitSession ==
    /\ InitSessions
    /\ InitConfigKeySet
    /\ InitVectorStoreOpenAI
    /\ InitModelDir
    /\ InitPP
    /\ InitChat

NextSession ==
    \/ Tick
    \/ CreateSession
    \/ \E session_id \in SessionIds : GetSession(session_id)
    \/ \E session_id \in SessionIds, updates \in SessionUpdates :
          UpdateSession(session_id, updates)
    \/ \E session_id \in SessionIds, document_id \in DocInputs :
          AddDocumentToSession(session_id, document_id)
    \/ \E session_id \in SessionIds, message \in Messages :
          AddChatMessage(session_id, message)
    \/ \E session_id \in SessionIds : DeleteSession(session_id)

SpecSession == InitSession /\ [][NextSession]_vars

\* The session file of an issued id is missing.
Gone(session_id) == session_id <= issued /\ sessions[session_id] = NoFile

\* C3: get_session on a stored session whose last_accessed is more than 24
\* hours before the current time returns None and deletes the session file;
\* a deleted session stays deleted, and get_session, update_session,
\* add_document_to_session and add_chat_message on it report not found.
C3_ExpiredSessionIsDeleted ==
    [][\A session_id \in SessionIds :
          /\ (GetSession(session_id)
                /\ sessions[session_id] # NoFile
                /\ now - sessions[session_id][1].last_accessed > 24)
             => (~sess_ret'.found /\ sessions'[session_id] = NoFile)
          /\ Gone(session_id) => Gone(session_id)'
          /\ (Gone(session_id)
                /\ \/ GetSession(session_id)
                   \/ \E updates \in SessionUpdates : UpdateSession(session_id, updates)
                   \/ \E document_id \in DocInputs :
                         AddDocumentToSession(session_id, document_id)
                   \/ \E message \in Messages : AddChatMessage(session_id, message))
             => ~sess_ret'.found]_vars

\* get_session found a session expired and its file is gone; a later call
\* on the same id reported not found.
C3_Witness ==
    /\ sess_ret.op = "update_session"
    /\ ~sess_ret.found
    /\ Gone(sess_ret.sid)
    /\ now > 24

(***************************************************************************)
(* The HTTP routes over the chat service, the PDF service and the session  *)
(* service, with the clock, the model type and the model files changing    *)
(* between the steps.                                                      *)
(***************************************************************************)
InitChatSpec ==
    /\ InitSessions
    /\ InitConfigKeySet
    /\ InitVectorStoreOpenAI
    /\ InitModelDir
    /\ InitPP
    /\ InitChat

NextChat ==
    \/ TickBy({LongStep})
    \/ ChatDepends
    \/ ChatStream
    \/ UploadDepends
    \/ UploadPdfs
    \/ SelectModelType
    \/ UploadLocalModelFrom(ChatModelFiles)

SpecChat == InitChatSpec /\ [][NextChat]_vars

\* C1: a chat request that fails in the generation step (the model cannot be
\* built or the LLM call raises) still leaves its question recorded: the
\* stored history of its session ends with that question as a user turn.
C1_FailedQuestionRecorded ==
    (~chat_ret.ok /\ chat_ret.stage = "generate")
    => LET history == session_histories[chat_ret.session_id]
       IN  /\ history # <<>>
           /\ history[Len(history)] = HumanMessage(chat_ret.question)

\* C2: when the session lookup of chat_stream finds no session, the answer
\* is a 404 whose detail contains "Session not found", and the chat service
\* is not invoked.
C2_MissingSessionIs404 ==
    [][\A request \in ChatRequests :
          (ChatStreamWith(request)
             /\ get_session(sessions, now, pending[1].session_id).data = None)
          => /\ http_ret'.status = 404
             /\ InSeq("Session not found", http_ret'.detail)
             /\ ~http_ret'.invoked
             /\ chat_ret' = chat_ret
             /\ session_histories' = session_histories]_vars

\* C6: a chat request without document_ids, for a session_id that an earlier
\* upload associated documents with, is processed with exactly those
\* documents; a request that names document_ids is processed with them.
C6_SessionDocumentsUsed ==
    [][\A request \in ChatRequests :
          (ChatStreamWith(request) /\ http_ret'.invoked)
          => /\ request.document_ids # <<>>
                  => chat_ret'.document_ids = request.document_ids
             /\ (/\ request.document_ids = <<>>
                 /\ sessions[request.session_id] # NoFile
                 /\ sessions[request.session_id][1].document_ids # <<>>)
                  => chat_ret'.document_ids
                       = sessions[request.session_id][1].document_ids]_vars

\* C7: when two successful chat requests with the same session_id follow one
\* another, what the LLM is handed for the second holds the first question
\* and then the first answer, both before the second question.
C7_SecondSeesFirst ==
    [][\A request \in ChatRequests :
          (/\ chat_ret.ok
           /\ request.session_id = chat_ret.session_id
           /\ http_ret'.invoked
           /\ chat_ret'.ok
           /\ chat_ret'.question = request.question
           /\ ChatStreamWith(request))
          => LET handed == Append(chat_ret'.llm_input.chat_history,
                                  HumanMessage(chat_ret'.llm_input.question))
             IN  /\ handed[Len(handed)] = HumanMessage(request.question)
                 /\ \E i, j \in 1..(Len(handed) - 1) :
                       /\ i < j
                       /\ handed[i] = HumanMessage(chat_ret.question)
                       /\ handed[j] = AIMessage(chat_ret.response)]_vars

C7_Witness ==
    /\ chat_ret.ok
    /\ Len(chat_ret.llm_input.chat_history) >= 2
    /\ chat_ret.llm_input.chat_history[1].content # chat_ret.question

\* C8: a successful chat request appends exactly two turns to the stored
\* history of its session, the question as a user turn and the answer as an
\* assistant turn, and changes no other turn; the answer yielded is the text
\* of that assistant turn, and it is the post-processed output of the model.
C8_TwoTurnsAppended ==
    [][\A request \in ChatRequests :
          (/\ http_ret'.invoked
           /\ chat_ret'.ok
           /\ chat_ret'.session_id = request.session_id
           /\ chat_ret'.question = request.question
           /\ ChatStreamWith(request))
          => /\ session_histories' =
                  [session_histories EXCEPT ![request.session_id] =
                      @ \o <<HumanMessage(request.question),
                             AIMessage(chat_ret'.response)>>]
             /\ chat_ret'.response = postprocess_text(chat_ret'.raw)]_vars

C8_Witness ==
    /\ chat_ret.ok
    /\ chat_ret.response # chat_ret.raw
    /\ Len(session_histories[chat_ret.session_id]) = 4
    /\ current_config.model_type = "local"

(***************************************************************************)
(* update_config calls on the deployment whose OPENAI_API_KEY is set and   *)
(* whose vector store starts with the configured embedding type.           *)
(***************************************************************************)
InitConfigKeySetSpec ==
    /\ InitSessions
    /\ InitConfigKeySet
    /\ InitVectorStoreOpenAI
    /\ InitModelDir
    /\ InitPP
    /\ InitChat

SpecConfigKeySet == InitConfigKeySetSpec /\ [][NextConfig]_vars

\* C11: unless the last write of embedding_type took the caller's own value,
\* embedding_type is the default of model_type: openai for openai,
\* huggingface for local.
C11_EmbeddingTracksModel ==
    ~cfg_ret.explicit
    => current_config.embedding_type = DefaultEmbedding(current_config.model_type)

\* C12: whenever update_config returns without raising, the vector store's
\* embedding_type is the configuration's embedding_type.
C12_SuccessfulUpdateSyncsStore ==
    [][\A config \in ConfigInputs :
          (UpdateConfigWith(config) /\ ~cfg_ret'.raised)
          => vector_store'.embedding_type = current_config'.embedding_type]_vars

(***************************************************************************)
(* The vector store under switches of the embedding type, by the           *)
(* configuration and by direct calls of update_embeddings.                 *)
(***************************************************************************)
NextEmbeddings ==
    \/ \E embedding_type \in EmbeddingTypeArgs : UpdateEmbeddings(embedding_type)
    \/ UpdateEmbeddingConfig
    \/ GetStore
    \/ AddTexts
    \/ DeleteDocument

SpecEmbeddings == InitStore /\ [][NextEmbeddings]_vars

\* C13: update_embeddings(t) changes nothing when t, trimmed, is the current
\* embedding type.  Otherwise, when it returns, the provider is the one of t,
\* embedding_type is the trimmed t and the in-memory index map is empty; when
\* the provider cannot be built it raises and changes nothing.  The index
\* files are untouched in every case.
C13_UpdateEmbeddingsFrame ==
    [][\A t \in EmbeddingTypeArgs :
          UpdateEmbeddings(t)
          => /\ faiss_files' = faiss_files
             /\ IF Trim(t) = Trim(vector_store.embedding_type) \/ vs_ret'.raised
                THEN vector_store' = vector_store
                ELSE /\ vector_store'.embeddings = create_embeddings(Trim(t))
                     /\ vector_store'.embedding_type = Trim(t)
                     /\ vector_store'.stores = NoStores]_vars

\* The statement without the failure case: every call with another type
\* installs the provider.  A switch to openai without an API key raises.
C13_AlwaysInstalls ==
    [][\A t \in EmbeddingTypeArgs :
          (UpdateEmbeddings(t) /\ Trim(t) # Trim(vector_store.embedding_type))
          => /\ vector_store'.embeddings = create_embeddings(Trim(t))
             /\ vector_store'.embedding_type = Trim(t)
             /\ vector_store'.stores = NoStores]_vars

C13_Witness ==
    /\ vs_ret.op = "update_embeddings"
    /\ ~vs_ret.raised
    /\ vector_store.embeddings = "HuggingFaceEmbeddings"
    /\ vector_store.stores = NoStores
    /\ \E doc_id \in DocIds :
          /\ faiss_files[doc_id] # NoFile
          /\ faiss_files[doc_id][1][1].by = "OpenAIEmbeddings"

C15_ExpiryFromLastAccess ==
    [][\A session_id \in SessionIds :
          GetSession(session_id)
          => /\ sess_ret'.found
                => /\ sessions'[session_id] # NoFile
                   /\ sessions'[session_id][1].last_accessed = now
             /\ (/\ sessions[session_id] # NoFile
                 /\ now - sessions[session_id][1].last_accessed <= session_timeout)
                => (sess_ret'.found /\ ~sess_ret'.expired)]_vars

\* A session older than the timeout by its creation time was returned.
C15_Witness ==
    /\ sess_ret.op = "get_session"
    /\ sess_ret.found
    /\ sessions[sess_ret.sid] # NoFile
    /\ now - sessions[sess_ret.sid][1].created_at > session_timeout
    /\ sessions[sess_ret.sid][1].last_accessed = now

\* C16: with model_type local and no model file uploaded (the request and
\* the configuration name no model path), process_chat_request raises and
\* yields nothing.
C16_LocalWithoutModelFails ==
    [][\A request \in ChatRequests :
          (/\ current_config.model_type = "local"
           /\ \A f \in FileNames : model_files[f] = NoFile
           /\ http_ret'.invoked
           /\ request.model_path = None
           /\ chat_ret'.session_id = request.session_id
           /\ chat_ret'.question = request.question
           /\ ChatStreamWith(request))
          => /\ ~chat_ret'.ok
             /\ chat_ret'.response = <<>>
             /\ ~chat_ret'.llm_input.called]_vars

\* The request failed where the default model is looked for.
C16_Witness ==
    /\ http_ret.invoked
    /\ current_config.model_type = "local"
    /\ \A f \in FileNames : model_files[f] = NoFile
    /\ ~chat_ret.ok
    /\ chat_ret.stage = "select"
    /\ chat_ret.response = <<>>

SpecValidate == InitConfigKeySetSpec /\ [][ValidateConfig]_vars

\* C17: update_config stores a given numeric value when it lies in the
\* inclusive range of its field (temperature 0..2, top_p 0..1, repeat_penalty
\* at least 1, max_tokens and n_ctx at least 1, gpu_layers at least -1; the
\* first three counted in hundredths), and a call giving a value outside its
\* range, a model_type other than openai or local, or an embedding_type
\* other than huggingface or openai raises an error naming such a field; no
\* validation error is raised when every given value is valid.
C17_RangeValidation ==
    [][\A config \in ValidationInputs :
          UpdateConfigWith(config)
          => LET Valid(k) ==
                     CASE k = "temperature"    -> 0 <= config[k] /\ config[k] <= 200
                       [] k = "top_p"          -> 0 <= config[k] /\ config[k] <= 100
                       [] k = "repeat_penalty" -> config[k] >= 100
                       [] k = "max_tokens"     -> config[k] >= 1
                       [] k = "n_ctx"          -> config[k] >= 1
                       [] k = "gpu_layers"     -> config[k] >= -1
                       [] k = "model_type"     -> config[k] \in {"openai", "local"}
                       [] k = "embedding_type" -> config[k] \in {"huggingface", "openai"}
                 Bad == {k \in ConfigKeys : Given(config, k) /\ ~Valid(k)}
                 Named(k) == IF k = "model_type" THEN "model type"
                             ELSE IF k = "embedding_type" THEN "embedding type"
                             ELSE k
             IN  /\ Bad = {}
                    => /\ cfg_ret'.field \notin ValidationFields
                       /\ \A k \in NumParams :
                             Given(config, k) => current_config'[k] = config[k]
                 /\ Bad # {}
                    => /\ cfg_ret'.raised
                       /\ \E k \in Bad : cfg_ret'.field = Named(k)]_vars

\* The upper ends of both closed ranges were stored and a later call was
\* rejected for a numeric field.
C17_Witness ==
    /\ cfg_ret.raised
    /\ cfg_ret.field \in NumParams
    /\ current_config.temperature = 200
    /\ current_config.top_p = 100

\* C18: the backend family of a file name is llama for the extension .gguf,
\* safetensors for .safetensors, pytorch for .pt, .pth and .bin, compared
\* without regard to case, and an error for any other extension; every file
\* upload_local_model has stored has a family.
C18_SelectorCoversUpload ==
    /\ \A f \in FileNames :
          model_files[f] # NoFile => infer_model_type_from_path(f) # None
    /\ upload_ret.filename # None
       => LET ext == Lower(SplitExt(upload_ret.filename))
              family == infer_model_type_from_path(upload_ret.filename)
          IN  /\ ext = <<".", "g", "g", "u", "f">> <=> family = Some("llama")
              /\ ext = <<".", "s", "a", "f", "e", "t", "e", "n", "s", "o", "r", "s">>
                    <=> family = Some("safetensors")
              /\ ext \in {<<".", "p", "t">>, <<".", "p", "t", "h">>, <<".", "b", "i", "n">>}
                    <=> family = Some("pytorch")
              /\ upload_ret.raised <=> family = None

\* Files whose extensions are written in capitals were accepted.
C18_Witness ==
    /\ model_files[<<"m", ".", "G", "G", "U", "F">>] # NoFile
    /\ upload_ret.filename = <<"m", ".", "P", "t", "h">>
    /\ ~upload_ret.raised

(***************************************************************************)
(* The model cache under calls of _get_llm.                                *)
(***************************************************************************)
NextLLM == GetLLM

SpecLLM == InitUpload /\ [][NextLLM]_vars

\* C19: for model_type local, a _get_llm call for a path that is not cached
\* loads the model and caches it when the load succeeds, a call for a cached
\* path returns the cached instance and loads nothing, a call that raises
\* leaves the cache as it was, and no step removes or replaces an entry.
C19_CacheKeepsFirstLoad ==
    [][/\ \A f \in FileNames :
             model_cache[f] # None => model_cache'[f] = model_cache[f]
       /\ \A load_ok \in BOOLEAN, model_path \in {Some(f) : f \in FileNames} :
             GetLLMWith("local", model_path, load_ok)
             => /\ llm_ret'.raised => model_cache' = model_cache
                /\ model_cache[model_path[1]] # None
                   => /\ ~llm_ret'.raised
                      /\ llm_ret'.llm = model_cache[model_path[1]]
                      /\ loads' = loads
                /\ (model_cache[model_path[1]] = None /\ ~llm_ret'.raised)
                   => /\ loads' = loads + 1
                      /\ llm_ret'.llm # None
                      /\ \A f \in FileNames : model_cache[f] # llm_ret'.llm
                      /\ model_cache' =
                            [model_cache EXCEPT ![model_path[1]] = llm_ret'.llm]]_vars

\* A later call for a cached path returned the cached instance, after
\* another model had been loaded in between.
C19_Witness ==
    /\ llm_ret.model_type = "local"
    /\ llm_ret.model_path # None
    /\ ~llm_ret.raised
    /\ ~llm_ret.loaded
    /\ llm_ret.llm = model_cache[llm_ret.model_path[1]]
    /\ loads >= 2
    /\ llm_ret.llm[1] < loads

\* The sentences of a text as the claim counts them: within each line, the
\* pieces that end with a full stop followed by a blank, and the rest of the
\* line; blank pieces are none.
C20_LineSentences(parts) ==
    LET piece(i) == Strip(IF i < Len(parts) THEN parts[i] \o <<".">> ELSE parts[i])
        kept == {i \in 1..Len(parts) : piece(i) # <<>>}
        nth(k) == CHOOSE i \in kept : Cardinality({j \in kept : j <= i}) = k
    IN  [k \in 1..Cardinality(kept) |-> piece(nth(k))]

C20_Sentences(text) ==
    LET lines == Split1(text, NL, <<>>)
    IN  Concat([i \in 1..Len(lines) |-> C20_LineSentences(Split2(lines[i], ".", " ", <<>>))])

\* C20: in the output of remove_repeating_sentences every sentence, compared
\* after collapsing whitespace, occurs at most once, repeats inside one
\* paragraph included.
C20_EachSentenceOnce ==
    pp_pc # "in"
    => LET out == remove_repeating_sentences(convert_newlines(pp_x))
           S   == C20_Sentences(out)
       IN  \A i, j \in 1..Len(S) : Normalized(S[i]) = Normalized(S[j]) => i = j

(***************************************************************************)
(* The vector store under lookups, adds and deletes, the embedding type    *)
(* staying as configured.                                                  *)
(***************************************************************************)
\* The process is started again under the settings it runs with: what it
\* kept in memory is gone (get_vector_store builds a VectorStore with no
\* index, ChatService one with no history and no model), the files stay.
Restart ==
    /\ vector_store.stores # NoStores
    /\ vector_store' = [vector_store EXCEPT !.stores = NoStores]
    /\ vs_ret' = NoVsRet
    /\ session_histories' = [session_id \in SessionIds |-> <<>>]
    /\ model_cache' = [f \in FileNames |-> None]
    /\ pending' = NoPending
    /\ UNCHANGED <<faiss_files, sessVars, cfgVars, mdlVars, ppVars, next_doc,
                   http_ret, chat_ret, loads, llm_ret>>

NextLookup ==
    \/ GetDocument
    \/ GetStore
    \/ AddTexts
    \/ DeleteDocument
    \/ DamageFile
    \/ Restart

SpecLookup == InitUpload /\ [][NextLookup]_vars

\* C21: get_document for a document id that has no index, in memory or on
\* file, raises nothing and returns no text.
C21_FreshIndexIsEmpty ==
    [][\A doc_id \in DocIds, pick \in 1..(MaxChunks + 1) :
          (/\ faiss_files[doc_id] = NoFile
           /\ vector_store.stores[doc_id] = None
           /\ GetDocumentWith(doc_id, pick))
          => (~vs_ret'.raised /\ vs_ret'.text = None)]_vars

\* C22: a chat request whose document ids are none, or all without stored
\* text, does not fail in retrieval, and the context its prompt gets is the
\* placeholder "No relevant information found.".
C22_EmptyRetrievalPlaceholder ==
    [][(/\ pending # NoPending
        /\ pending' = NoPending
        /\ http_ret'.route = "chat"
        /\ http_ret'.invoked
        /\ \A i \in 1..Len(chat_ret'.document_ids) :
              /\ faiss_files[chat_ret'.document_ids[i]] = NoFile
              /\ vector_store.stores[chat_ret'.document_ids[i]] = None)
       => /\ chat_ret'.stage # "retrieve"
          /\ chat_ret'.llm_input.called
             => chat_ret'.llm_input.context = <<NoContext>>]_vars

\* C23: delete_document(doc_id) raises nothing, leaves doc_id without an
\* index in memory and without an index file, and leaves the index and the
\* file of every other document as they were; a second call changes
\* nothing more.
C23_DeleteRemovesBoth ==
    [][\A doc_id \in DocIds :
          (vs_ret'.op = "delete_document" /\ vs_ret'.doc = doc_id)
          => /\ ~vs_ret'.raised
             /\ vector_store'.stores[doc_id] = None
             /\ faiss_files'[doc_id] = NoFile
             /\ \A other \in DocIds \ {doc_id} :
                   /\ vector_store'.stores[other] = vector_store.stores[other]
                   /\ faiss_files'[other] = faiss_files[other]
             /\ delete_document(vector_store', faiss_files', doc_id)
                   = [vs |-> vector_store', files |-> faiss_files', raised |-> FALSE]]_vars

\* C24: add_texts stores no empty or whitespace-only text; a batch without
\* a non-blank text changes neither the store nor the files; and when a
\* call with a non-blank text returns, the index file of doc_id exists, ends
\* with the non-blank texts of the batch in their order, and is what the
\* in-memory index holds.
C24_AddTextsSkipsBlanks ==
    [][\A doc_id \in DocIds, texts \in Batches :
          (vs_ret'.op = "add_texts" /\ vs_ret'.doc = doc_id /\ AddTextsWith(doc_id, texts))
          => LET nonblank == SelectSeq(texts, LAMBDA t : t # "" /\ t # " ")
                 n == Len(nonblank)
             IN  /\ \A d \in DocIds :
                       faiss_files'[d] # NoFile
                       => \A i \in 1..Len(faiss_files'[d][1]) :
                             faiss_files'[d][1][i].text \notin {"", " "}
                 /\ n = 0
                    => /\ ~vs_ret'.raised
                       /\ vector_store' = vector_store
                       /\ faiss_files' = faiss_files
                 /\ (n > 0 /\ ~vs_ret'.raised)
                    => /\ faiss_files'[doc_id] # NoFile
                       /\ vector_store'.stores[doc_id] = faiss_files'[doc_id]
                       /\ Len(faiss_files'[doc_id][1]) >= n
                       /\ \A i \in 1..n :
                             faiss_files'[doc_id][1][Len(faiss_files'[doc_id][1]) - n + i].text
                               = nonblank[i]]_vars

\* A second batch was appended to the index file of a document.
C24_Witness ==
    /\ vs_ret.op = "add_texts"
    /\ ~vs_ret.raised
    /\ \E doc_id \in DocIds :
          /\ vs_ret.doc = doc_id
          /\ faiss_files[doc_id] # NoFile
          /\ Len(faiss_files[doc_id][1]) = MaxChunks + 1
          /\ vector_store.stores[doc_id] = faiss_files[doc_id]

(***************************************************************************)
(* The prompt of a session that has talked before: session_histories, the  *)
(* dict ChatService keeps for as long as the process lives, starts with up *)
(* to two finished exchanges for session 1, and chat requests follow.      *)
(***************************************************************************)
PriorExchange(question) ==
    <<HumanMessage(question),
      AIMessage(postprocess_text(CHOOSE raw \in RawOutputs : TRUE))>>
PriorHistories ==
    {<<>>} \cup {PriorExchange(q) : q \in Questions}
           \cup {PriorExchange(q1) \o PriorExchange(q2) : q1, q2 \in Questions}

InitPromptSpec ==
    /\ InitSessions
    /\ InitConfigKeySet
    /\ InitVectorStoreOpenAI
    /\ InitModelDir
    /\ InitPP
    /\ \E history \in PriorHistories :
         session_histories = [session_id \in SessionIds |->
                                IF session_id = 1 THEN history ELSE <<>>]
    /\ next_doc = 0
    /\ pending = NoPending
    /\ http_ret = NoHttpRet
    /\ chat_ret = NoChatRet
    /\ model_cache = [f \in FileNames |-> None]
    /\ loads = 0
    /\ llm_ret = NoLlmRet

NextPrompt == ChatDepends \/ ChatStream

SpecPrompt == InitPromptSpec /\ [][NextPrompt]_vars

\* The prior turns of a prompt: what generate_response hands over as
\* chat_history, less the question itself, which the local template carries
\* as the last turn.
C25_PriorTurns ==
    Len(chat_ret.llm_input.chat_history)
      - (IF current_config.model_type = "openai" THEN 0 ELSE 1)

\* C25: the number of prior turns placed in the prompt is bounded: however
\* long the history of the session has grown, the prompt carries fewer than
\* MaxTurns - 2 prior turns, the longest history a request finds here, the
\* oldest ones being left out.
C25_PromptHistoryBounded ==
    chat_ret.llm_input.called => C25_PriorTurns < MaxTurns - 2

\* C26: get_store for a document whose index file exists and cannot be
\* loaded raises nothing and leaves the document with a rebuilt index in
\* memory.
C26_UnreadableIsCacheMiss ==
    [][\A doc_id \in DocIds :
          (/\ faiss_files[doc_id] = Some(UnreadableIndex)
           /\ vector_store.stores[doc_id] = None
           /\ GetStoreWith(doc_id))
          => /\ ~vs_ret'.raised
             /\ vector_store'.stores[doc_id] = Some(SeedIndex(vector_store'))]_vars

(***************************************************************************)
(* Uploads under either embedding type, with or without the API key, the   *)
(* embedding type changing between them.                                   *)
(***************************************************************************)
NextPdfs ==
    \/ UpdateEmbeddingConfig
    \/ UploadDepends
    \/ UploadPdfs

SpecPdfs == InitStore /\ [][NextPdfs]_vars

\* Whether process_pdfs can process a file: PdfReader reads it and, when it
\* has text, add_texts stores it.
C27_Fails(vs, ffiles, config, doc_id, file) ==
    \/ file = Unreadable
    \/ /\ ValidTexts(file) # <<>>
       /\ add_texts(vs, ffiles, config, doc_id, ValidTexts(file)).raised

\* C27: process_pdfs drops no document silently: either it returns one id
\* for every uploaded file, in the order of the upload (the i-th id is the
\* one under which the text of the i-th file is stored), or it raises an
\* error that names a file it failed on and the caller gets no id at all.
C27_NoSilentDrop ==
    [][\A files \in Uploads :
          (pending # NoPending /\ UploadPdfsWith(files))
          => \E r \in {process_pdfs(vector_store, faiss_files, current_config, next_doc, <<>>, files)} :
                IF r.raised
                THEN /\ r.failing \in 1..Len(files)
                     /\ C27_Fails(r.vs, r.files, current_config, r.last_doc,
                                  files[r.failing])
                     /\ http_ret'.status = 500
                     /\ http_ret'.document_ids = <<>>
                ELSE /\ Len(r.document_ids) = Len(files)
                     /\ \A i \in 1..Len(files) :
                           /\ r.document_ids[i] = next_doc + i
                           /\ ValidTexts(files[i]) # <<>>
                              => /\ faiss_files'[next_doc + i] # NoFile
                                 /\ LET index == faiss_files'[next_doc + i][1]
                                    IN  [k \in 1..(Len(index) - 1) |-> index[k + 1].text]
                                          = ValidTexts(files[i])]_vars

\* An upload of two files has failed on the second one, after the text of
\* the first one was stored.
C27_Witness ==
    /\ http_ret.route = "upload"
    /\ http_ret.invoked
    /\ http_ret.status = 500
    /\ \E d \in DocIds : faiss_files[d] # NoFile

\* C28: the document_ids of a session file never hold an id twice; and
\* add_document_to_session on a session that is found leaves the list as it
\* was when it has the id, appends the id when it has not, stores that list
\* and returns it.
C28_NoDuplicateDocuments ==
    [][/\ \A session_id \in SessionIds :
             sessions'[session_id] # NoFile
             => LET ids == sessions'[session_id][1].document_ids
                IN  \A i, j \in 1..Len(ids) : ids[i] = ids[j] => i = j
       /\ \A session_id \in SessionIds, document_id \in DocInputs :
             (/\ sess_ret'.op = "add_document_to_session"
              /\ sess_ret'.found
              /\ AddDocumentToSession(session_id, document_id))
             => LET before   == sessions[session_id][1].document_ids
                    expected == IF InSeq(document_id, before) THEN before
                                ELSE Append(before, document_id)
                IN  /\ sessions'[session_id] # NoFile
                    /\ sessions'[session_id][1].document_ids = expected
                    /\ add_document_to_session(sessions, now, session_id, document_id).data
                         = Some(expected)]_vars

\* Both documents have been added to a session, the last call an
\* add_document_to_session that found it.
C28_Witness ==
    /\ sess_ret.op = "add_document_to_session"
    /\ sess_ret.found
    /\ sessions[sess_ret.sid] # NoFile
    /\ Len(sessions[sess_ret.sid][1].document_ids) = 2

\* A session id whose file exists and was accessed within the timeout.
C29_Live(session_id) ==
    /\ sessions[session_id] # NoFile
    /\ now - sessions[session_id][1].last_accessed <= session_timeout

\* C29: update_session, add_document_to_session and add_chat_message on a
\* session that is missing or expired raise and leave no file under that id,
\* the other files as they were; update_session on a live session writes the
\* given keys over the stored record, sets last_accessed to the time of the
\* call, leaves the other keys alone and returns the record it stored.
C29_UpdateContract ==
    [][/\ \A session_id \in SessionIds :
             (/\ sess_ret'.op \in {"update_session", "add_document_to_session",
                                   "add_chat_message"}
              /\ ~C29_Live(session_id)
              /\ \/ \E updates \in SessionUpdates : UpdateSession(session_id, updates)
                 \/ \E document_id \in DocInputs :
                       AddDocumentToSession(session_id, document_id)
                 \/ \E message \in Messages : AddChatMessage(session_id, message))
             => /\ ~sess_ret'.found
                /\ sessions'[session_id] = NoFile
                /\ \A other \in SessionIds \ {session_id} :
                      sessions'[other] = sessions[other]
       /\ \A session_id \in SessionIds, updates \in SessionUpdates :
             (/\ sess_ret'.op = "update_session"
              /\ C29_Live(session_id)
              /\ UpdateSession(session_id, updates))
             => /\ sess_ret'.found
                /\ sessions'[session_id] # NoFile
                /\ LET before == sessions[session_id][1]
                       stored == sessions'[session_id][1]
                   IN  /\ DOMAIN stored = DOMAIN before
                       /\ \A k \in DOMAIN before :
                             stored[k] = IF k = "last_accessed" THEN now
                                         ELSE IF k \in updates.has THEN updates[k]
                                         ELSE before[k]
                       /\ update_session(sessions, now, session_id, updates).data
                            = Some(stored)]_vars

\* update_session was called, after the timeout had passed, for a session
\* that had been created, and did not find it.
C29_Witness ==
    /\ sess_ret.op = "update_session"
    /\ ~sess_ret.found
    /\ sess_ret.sid <= issued
    /\ now > session_timeout
    /\ sessions[sess_ret.sid] = NoFile

\* C30: delete_session returns True exactly when the file of the session
\* existed, and then the file is gone and get_session for that id returns
\* None; without a file it returns False; either way no other file changes.
C30_DeleteSessionResult ==
    [][\A session_id \in SessionIds :
          (sess_ret'.op = "delete_session" /\ DeleteSession(session_id))
          => /\ sess_ret'.found = (sessions[session_id] # NoFile)
             /\ sessions'[session_id] = NoFile
             /\ \A other \in SessionIds \ {session_id} :
                   sessions'[other] = sessions[other]
             /\ sess_ret'.found
                => get_session(sessions', now', session_id).data = None]_vars

\* delete_session has removed the file of a session that had been created.
C30_Witness ==
    /\ sess_ret.op = "delete_session"
    /\ sess_ret.found
    /\ sess_ret.sid <= issued
    /\ sessions[sess_ret.sid] = NoFile

(***************************************************************************)
(* _prepare_chat_state called with requests that name a model type and a   *)
(* model path of their own, under either configured model type, for        *)
(* sessions with and without earlier turns.                                *)
(***************************************************************************)
PrepareRequests ==
    [question : Questions, session_id : SessionIds, document_ids : DocIdLists,
     model_type : {"openai", "local"},
     model_path : {None} \cup {Some(f) : f \in ChatModelFiles}]

PrepareChatState(request) ==
    \E p \in {prepare_chat_state(session_histories, current_config, vector_store, request)} :
        /\ ~p.raised
        /\ vector_store' = p.vs
        /\ chat_ret' = [NoChatRet EXCEPT !.session_id = request.session_id,
                                         !.question = p.state.question,
                                         !.document_ids = p.state.document_ids,
                                         !.stage = "prepared",
                                         !.model_path = p.state.model_path]
        /\ UNCHANGED <<sessVars, cfgVars, faiss_files, vs_ret, mdlVars, ppVars,
                       session_histories, next_doc, pending, http_ret, llmVars>>

NextPrepare ==
    \/ SelectModelType
    \/ \E request \in PrepareRequests : PrepareChatState(request)

SpecPrepare == InitPromptSpec /\ [][NextPrepare]_vars

\* C31: the ChatState _prepare_chat_state builds for a request has the
\* model_type and the model_path of the request, its question and its
\* document_ids, no retrieved document and an empty response.
C31_StateCarriesRequest ==
    [][\A request \in PrepareRequests :
          (chat_ret'.stage = "prepared" /\ PrepareChatState(request))
          => \E p \in {prepare_chat_state(session_histories, current_config, vector_store, request)} :
                /\ p.state.question = request.question
                /\ p.state.document_ids = request.document_ids
                /\ p.state.retrieved_docs = <<>>
                /\ p.state.response = <<>>
                /\ p.state.model_type = request.model_type
                /\ p.state.model_path = request.model_path]_vars

(***************************************************************************)
(* One session, and two get_session calls that overlap.                    *)
(***************************************************************************)
NextRace ==
    \/ CreateSession
    \/ TickBetweenCalls
    \/ \E c \in Callers, session_id \in SessionIds : GetSessionCall(c, session_id)
    \/ \E c \in Callers : GetSessionStep(c)

SpecRace == InitSession /\ [][NextRace]_vars

\* C32: of get_session calls that overlap on one session, each call that
\* started on a live session returns the session, and each call that started
\* on an expired session returns None, the file being gone once the calls
\* on that session have returned.
C32_ConcurrentGetSession ==
    \A c \in Callers :
       (calls[c].op = "get_session" /\ calls[c].pc = "done")
       => /\ calls[c].was = "live" => calls[c].ret # None
          /\ calls[c].was = "expired"
             => /\ calls[c].ret = None
                /\ (\A other \in Callers :
                       calls[other].sid = calls[c].sid
                       => calls[other].pc = "done")
                   => sessions[calls[c].sid] = NoFile

(***************************************************************************)
(* api/routes/model.py: the configure route and the force-refresh route.   *)
(* Both call _create_embeddings and drop what it returns, then write the   *)
(* label and clear the indexes.                                            *)
(***************************************************************************)
\* configure_model_endpoint: the embedding type is derived from the model
\* type when the dict has that key, update_config runs, and the vector
\* store is relabelled with the embedding type of its result.
configure_model_endpoint(cfg, vs, config) ==
    LET config_dict == IF "model_type" \in config.has
                       THEN [config EXCEPT
                               !.has = @ \cup {"embedding_type"},
                               !.none = @ \ {"embedding_type"},
                               !.embedding_type = DefaultEmbedding(config.model_type)]
                       ELSE config
        r == update_config(cfg, vs, config_dict)
    IN  IF r.raised \/ create_embeddings_raises(r.cfg.embedding_type)
        THEN [cfg |-> r.cfg, vs |-> r.vs, raised |-> TRUE]
        ELSE [cfg |-> r.cfg,
              vs |-> [r.vs EXCEPT !.embedding_type = r.cfg.embedding_type,
                                  !.stores = NoStores],
              raised |-> FALSE]

\* force_refresh_embeddings: the vector store is relabelled with the
\* configured embedding type.
force_refresh_embeddings(cfg, vs) ==
    IF create_embeddings_raises(cfg.embedding_type)
    THEN [vs |-> vs, raised |-> TRUE]
    ELSE [vs |-> [vs EXCEPT !.embedding_type = cfg.embedding_type,
                            !.stores = NoStores],
          raised |-> FALSE]

ConfigureModel ==
    \E config \in ConfigInputs :
        /\ config.has \subseteq {"model_type", "embedding_type"}
        /\ \E r \in {configure_model_endpoint(current_config, vector_store, config)} :
            /\ current_config' = r.cfg
            /\ vector_store' = r.vs
            /\ cfg_ret' = [cfg_ret EXCEPT !.raised = r.raised, !.field = ""]
            /\ vs_ret' = [NoVsRet EXCEPT !.op = "configure", !.raised = r.raised]
            /\ UNCHANGED <<api_key_set, faiss_files, sessVars, mdlVars, ppVars, chatVars>>

ForceRefreshEmbeddings ==
    \E r \in {force_refresh_embeddings(current_config, vector_store)} :
        /\ vector_store' = r.vs
        /\ vs_ret' = [NoVsRet EXCEPT !.op = "force_refresh", !.raised = r.raised]
        /\ UNCHANGED <<faiss_files, sessVars, cfgVars, mdlVars, ppVars, chatVars>>

NextRoutes ==
    \/ UpdateEmbeddingConfig
    \/ \E embedding_type \in EmbeddingTypeArgs : UpdateEmbeddings(embedding_type)
    \/ ConfigureModel
    \/ ForceRefreshEmbeddings

SpecRoutes == InitConfigKeySetSpec /\ [][NextRoutes]_vars

\* C33: the provider the vector store computes its vectors with is the one
\* _create_embeddings builds for the type its embedding_type field names.
C33_LabelMatchesProvider ==
    vector_store.embeddings = create_embeddings(vector_store.embedding_type)

\* A caller writes the embedding type into the dict get_config hands out:
\* the dict is current_config itself, and nothing validates the value.
MutateConfig ==
    \E embedding_type \in EmbeddingTypeArgs :
        /\ current_config' = [current_config EXCEPT !.embedding_type = embedding_type]
        /\ cfg_ret' = [cfg_ret EXCEPT !.raised = FALSE, !.field = ""]
        /\ UNCHANGED <<api_key_set, vsVars, sessVars, mdlVars, ppVars, chatVars>>

NextReconcile ==
    \/ UpdateEmbeddingConfig
    \/ MutateConfig
    \/ ForceRefreshEmbeddings
    \/ GetStore

SpecReconcile == InitConfigKeySetSpec /\ [][NextReconcile]_vars

\* C34: when get_store returns, the vector store's embedding_type is the
\* configured embedding_type and its provider is the one of that type.
C34_StoreFollowsConfig ==
    [][\A doc_id \in DocIds :
        (GetStoreWith(doc_id) /\ ~vs_ret'.raised)
        => /\ vector_store'.embedding_type = current_config'.embedding_type
           /\ vector_store'.embeddings = create_embeddings(current_config'.embedding_type)]_vars

\* C35: every chunk in the context a chat request hands to the LLM is a text
\* that add_texts stored for one of the request's document ids, and never
\* the seed text of get_store.
C35_ContextIsUploadedText ==
    [][(/\ pending # NoPending
        /\ pending' = NoPending
        /\ http_ret'.route = "chat"
        /\ http_ret'.invoked
        /\ chat_ret'.llm_input.called
        /\ chat_ret'.llm_input.context # <<NoContext>>)
       => \A i \in 1..Len(chat_ret'.llm_input.context) :
             LET chunk == chat_ret'.llm_input.context[i]
             IN  /\ chunk # SeedText
                 /\ \E j \in 1..Len(chat_ret'.document_ids) :
                       LET file == faiss_files[chat_ret'.document_ids[j]]
                       IN  /\ file # NoFile
                           /\ \E k \in 1..Len(file[1]) : file[1][k].text = chunk]_vars

\* core/config.py: the Settings object, read from the environment once at
\* import.  ModelService.__init__ copies these values into current_config.
settings ==
    [temperature |-> 10, max_tokens |-> 512, top_p |-> 95, repeat_penalty |-> 120,
     n_ctx |-> 4096, gpu_layers |-> -1]

\* The generation parameters _get_llm passes to the constructor of a
\* backend: ChatOpenAI gets two, LlamaCpp all six, each read from settings.
llm_kwargs(model_type) ==
    IF model_type = "openai"
    THEN [k \in {"temperature", "max_tokens"} |-> settings[k]]
    ELSE [k \in NumParams |-> settings[k]]

\* update_config with one generation parameter.
UpdateNumeric ==
    \E config \in ConfigsWith({"temperature"}, {}) \cup ConfigsWith({"max_tokens"}, {}) :
        UpdateConfigWith(config)

NextBackend == UpdateNumeric \/ GetLLM

SpecBackend == InitUpload /\ [][NextBackend]_vars

\* C36: a backend _get_llm instantiates is built with the values the
\* configuration has at that moment for each generation parameter it takes.
C36_BackendUsesCurrentConfig ==
    [][\A model_type \in {"openai", "local"}, load_ok \in BOOLEAN,
          model_path \in {None} \cup {Some(f) : f \in FileNames} :
          (/\ GetLLMWith(model_type, model_path, load_ok)
           /\ ~llm_ret'.raised
           /\ (model_type = "openai" \/ llm_ret'.loaded))
          => \A k \in DOMAIN llm_kwargs(model_type) :
                llm_kwargs(model_type)[k] = current_config'[k]]_vars

\* The messages two overlapping add_chat_message calls bring.
RaceMessages == {"m1", "m2"}

\* Caller c enters add_document_to_session or add_chat_message and runs it
\* up to its call of update_session: get_session, then the append to the
\* session_data it got.  A document id the list has already is returned
\* without an update.
AddCall(c, op, session_id, document_id, message) ==
    /\ calls[c].pc = "idle"
    /\ LET g == get_session(sessions, now, session_id)
           call == [IdleCall EXCEPT !.op = op, !.sid = session_id,
                                    !.was = SessionStatus(session_id),
                                    !.arg = document_id, !.message = message]
       IN  /\ sessions' = g.files
           /\ calls' = [calls EXCEPT ![c] =
                 IF g.data = None THEN [call EXCEPT !.pc = "done"]
                 ELSE IF op = "add_chat_message"
                 THEN [call EXCEPT !.pc = "update",
                          !.data = Some([g.data[1] EXCEPT !.chat_history = Append(@, message)])]
                 ELSE IF InSeq(document_id, g.data[1].document_ids)
                 THEN [call EXCEPT !.pc = "done", !.data = g.data, !.ret = g.data]
                 ELSE [call EXCEPT !.pc = "update",
                          !.data = Some([g.data[1] EXCEPT !.document_ids = Append(@, document_id)])]]
    /\ UNCHANGED <<now, issued, sess_ret, torn, cfgVars, vsVars, mdlVars, ppVars, chatVars>>

\* The update_session(session_id, session_data) that ends the call of c.
AddStep(c) ==
    /\ calls[c].pc = "update"
    /\ LET u == update_session(sessions, now, calls[c].sid, AsUpdate(calls[c].data[1]))
       IN  /\ sessions' = u.files
           /\ calls' = [calls EXCEPT ![c] = [@ EXCEPT !.pc = "done", !.ret = u.data]]
    /\ UNCHANGED <<now, issued, sess_ret, torn, cfgVars, vsVars, mdlVars, ppVars, chatVars>>

NextAdd ==
    \/ CreateSession
    \/ \E c \in Callers, session_id \in SessionIds, document_id \in DocInputs :
          AddCall(c, "add_document_to_session", session_id, document_id, "")
    \/ \E c \in Callers, session_id \in SessionIds, message \in RaceMessages :
          AddCall(c, "add_chat_message", session_id, 0, message)
    \/ \E c \in Callers : AddStep(c)

SpecAdd == InitSession /\ [][NextAdd]_vars

\* C37: when two calls that add different things to one live session have
\* both returned, the session file holds both additions.
C37_BothAdditionsKept ==
    \A c1, c2 \in Callers :
       (/\ c1 # c2
        /\ calls[c1].pc = "done" /\ calls[c2].pc = "done"
        /\ calls[c1].ret # None /\ calls[c2].ret # None
        /\ calls[c1].sid = calls[c2].sid
        /\ calls[c1].op \in {"add_document_to_session", "add_chat_message"}
        /\ calls[c2].op \in {"add_document_to_session", "add_chat_message"}
        /\ <<calls[c1].op, calls[c1].arg, calls[c1].message>>
              # <<calls[c2].op, calls[c2].arg, calls[c2].message>>)
       => /\ sessions[calls[c1].sid] # NoFile
          /\ \A c \in {c1, c2} :
                LET session_data == sessions[calls[c].sid][1]
                IN  IF calls[c].op = "add_chat_message"
                    THEN InSeq(calls[c].message, session_data.chat_history)
                    ELSE InSeq(calls[c].arg, session_data.document_ids)

\* The model files of a deployment that holds a GGUF model and a PyTorch one.
DefaultModelFiles == { <<"m", ".", "g", "g", "u", "f">>, <<"m", ".", "b", "i", "n">> }

NextDefault ==
    \/ SelectModelType
    \/ UploadLocalModelFrom(DefaultModelFiles)
    \/ ChatDepends
    \/ ChatStream

SpecDefault == InitChatSpec /\ [][NextDefault]_vars

\* C38: a chat request without a model path under model type local gets a
\* .gguf file as its model whenever MODEL_DIR holds one, and fails in the
\* selection when MODEL_DIR holds no file of a supported extension.
C38_DefaultPrefersGguf ==
    [][(/\ pending # NoPending
        /\ pending' = NoPending
        /\ http_ret'.route = "chat"
        /\ http_ret'.invoked
        /\ current_config.model_type = "local"
        /\ chat_ret'.stage # "prepare")
       => /\ (\E f \in FileNames :
                 /\ model_dir_exists
                 /\ model_files[f] # NoFile
                 /\ SplitExt(f) = <<".", "g", "g", "u", "f">>)
             => /\ chat_ret'.model_path # None
                /\ SplitExt(chat_ret'.model_path[1]) = <<".", "g", "g", "u", "f">>
          /\ (\A f \in FileNames :
                 (model_dir_exists /\ model_files[f] # NoFile)
                 => Lower(SplitExt(f)) \notin supported_extensions)
             => (~chat_ret'.ok /\ chat_ret'.stage = "select")]_vars

\* C39: an upload on which process_pdfs raises leaves no index it created:
\* a document without an index file before the call has none after it, and
\* a document without an in-memory index before the call has none after it.
C39_FailedUploadLeavesNoIndex ==
    [][\A files \in Uploads :
          (/\ pending # NoPending
           /\ UploadPdfsWith(files)
           /\ process_pdfs(vector_store, faiss_files, current_config, next_doc, <<>>, files).raised)
          => \A doc_id \in DocIds :
                /\ faiss_files[doc_id] = NoFile => faiss_files'[doc_id] = NoFile
                /\ vector_store.stores[doc_id] = None
                   => vector_store'.stores[doc_id] = None]_vars

\* C40: a chat request changes the stored history of no session id but its
\* own, every stored history extends the one stored before it under the
\* same id, and a request on the id of a session that has expired or been
\* deleted hands the LLM none of the turns stored under that id.
C40_HistoryScopedAppendOnly ==
    [][(/\ pending # NoPending
        /\ pending' = NoPending
        /\ http_ret'.route = "chat"
        /\ http_ret'.invoked)
       => /\ \A session_id \in SessionIds \ {chat_ret'.session_id} :
                session_histories'[session_id] = session_histories[session_id]
          /\ \A session_id \in SessionIds :
                /\ Len(session_histories[session_id]) <= Len(session_histories'[session_id])
                /\ SubSeq(session_histories'[session_id], 1, Len(session_histories[session_id]))
                      = session_histories[session_id]
          /\ (/\ chat_ret'.llm_input.called
              /\ \/ SessionStatus(chat_ret'.session_id) = "expired"
                 \/ /\ chat_ret'.session_id <= issued
                    /\ sessions[chat_ret'.session_id] = NoFile)
             => chat_ret'.llm_input.chat_history
                   \in {<<>>, <<HumanMessage(chat_ret'.question)>>}]_vars

====
